---- MODULE Spec2Model ----
(***************************************************************************)
(* ThreadJS example mods as state machines.                                *)
(*                                                                         *)
(*   SpecKit      example-mods/v1.0.0/spawn-kit.js      (/kit, /kitreset)  *)
(*   SpecTracker  example-mods/v1.0.0/player-tracker.js (command events)   *)
(*   SpecBoard    example-mods/v1.0.0/player-tracker.js (/leaderboard)     *)
(*   SpecHome     example-mods/v1.0.0/player-tracker.js (teleport-home)    *)
(*   SpecLoad     onInitialize of the three v1.0.0 mods (loadData)         *)
(*   SpecWeb      version.js (version selector of the docs pages)          *)
(*   SpecSched    sample mod main.js: join, disconnect, tick sweep         *)
(*   SpecSession  sample mod main.js: sessions with the clock running      *)
(*   SpecData     sample mod main.js: homeData, warpData, dailyClaims      *)
(*                                                                         *)
(* The mods share no state: each keeps its own closure variables and its   *)
(* own storage key, so each is explored under its own specification.       *)
(*                                                                         *)
(* JavaScript objects used as maps (`received`, `activity`, `homes`) are   *)
(* modelled with their own properties AND their prototype: a lookup        *)
(* obj[k] that finds no own property k continues in Object.prototype, so   *)
(* obj["constructor"] is a function (truthy) on an empty object, and an    *)
(* assignment obj["__proto__"] = v runs the __proto__ setter instead of    *)
(* creating an own property.                                               *)
(***************************************************************************)
EXTENDS Integers, Sequences, FiniteSets, TLC

VARIABLES
    clock,          \* last value returned by Date.now / currentTimeMillis
    lastOp,         \* history: what the last handler did (replies, host calls)
    \* ---- spawn-kit.js
    received,       \* own properties of `received` (name -> timestamp)
    kitStore,       \* value last saved under "kit_received"
    grants,         \* history: /kit invocations that gave items to p since
                    \*   the last successful /kitreset p
    claimed,        \* history: "yes" once p claimed /kit, "reset" once a
                    \*   /kitreset of the recorded p succeeded, else "no"
    kitReloaded,    \* history: the mod was initialised again since p's
                    \*   latest claim or successful reset
    \* ---- player-tracker.js (player-tracker mod)
    activity,       \* own properties of `activity` (name -> PlayerActivity)
    builtins,       \* properties written onto Object / Object.prototype
    trackStore,     \* value last saved under "player_activity"
    seen,           \* history: a command event with playerName p was delivered
    events,         \* history: per name, how many command events were
                    \*   delivered and the command of the latest one
    \* ---- player-tracker.js (teleport-home mod)
    homes,          \* own properties of `homes` (name -> home record)
    homesProto,     \* <<>>: prototype is Object.prototype; <<h>>: it is h
    homeStore,      \* value last saved under "homes"
    homeSet,        \* history: p ran /home set and no /home delete since
    homeAt,         \* history: <<loc>> where p last ran /home set, <<>> if p
                    \*   never did or ran /home delete since
    \* ---- onInitialize of the three v1.0.0 mods
    boot,           \* what the last onInitialize loaded, and what the first
                    \*   mutation after it did to the loaded value
    \* ---- version.js
    pathname,       \* window.location.pathname, as a sequence of segments
    viewing,        \* the page the browser shows (and the table its
                    \*   version.js was built with)
    globals,        \* names defined on `window` by the scripts loaded so far
    versionConfig,  \* the entry objects of VERSION_CONFIG, in array order
                    \*   (<<>> until version.js has run on the page)
    exposedConfig,  \* window.ThreadJsVersions.config: for each element the
                    \*   index of the VERSION_CONFIG entry it is, 0 for an
                    \*   object another script put there
    select,         \* the <select> element and the note element
    webOp,          \* history: what the last browser step did
    \* ---- sample mod main.js
    tickCounter,    \* var tickCounter
    scheduledTasks, \* var scheduledTasks (ArrayList, in list order)
    playerData,     \* var playerData (HashMap uuid -> {name, joinedAt})
    online,         \* host: uuids of the connected players
    sessionStart,   \* history: time of the JOIN that opened each connected
                    \*   player's session; 0 for a player who is not connected
    seqno,          \* history: scheduleTask calls since tickCounter last changed
    tickLog,        \* history: what the last tick handler did
    sweepAt,        \* position of the tick handler: 0 when it is not
                    \*   running, else the index `i` of its while loop
                    \*   (counted from 1)
    homeData,       \* var homeData (HashMap uuid -> BlockPos)
    warpData,       \* var warpData (HashMap name -> BlockPos)
    dailyClaims,    \* var dailyClaims (HashMap uuid -> timestamp)
    lostAtInit,     \* history: the three maps and the grant log as they
                    \*   were when the mod was last re-initialised (empty
                    \*   unless that was the last step)
    grantLog        \* history: per player, when /js daily last granted the
                    \*   reward since the mod was initialised (0: not yet)

kitVars == <<received, kitStore, grants, claimed, kitReloaded>>
trackVars == <<activity, builtins, trackStore, seen, events>>
homeVars == <<homes, homesProto, homeStore, homeSet, homeAt>>
schedVars == <<tickCounter, scheduledTasks, playerData, online, sessionStart,
              seqno, tickLog, sweepAt>>
dataVars == <<homeData, warpData, dailyClaims, lostAtInit, grantLog>>
loadVars == <<boot>>
webVars == <<pathname, viewing, globals, versionConfig, exposedConfig,
            select, webOp>>
modVars == <<kitVars, trackVars, homeVars, loadVars, webVars>>
vars == <<clock, lastOp, kitVars, trackVars, homeVars, loadVars, webVars,
          schedVars, dataVars>>

(***************************************************************************)
(* Bounds of the exploration.                                              *)
(***************************************************************************)
MaxClock == 3
MaxCount == 2       \* command events counted per player
MaxQueue == 2       \* entries in scheduledTasks when a handler adds one
EarlyTicks == 1     \* external events arrive while tickCounter < EarlyTicks ...
LateTicks == 1      \* ... or in the LateTicks ticks before the ambient effect
TicksAfter == 1     \* ticks explored past the ambient effect

\* Player names.  Minecraft names are 3..16 characters of [A-Za-z0-9_], so
\* "constructor" and "__proto__" are names a player can have.
PlainNames == {"alice", "bob"}
ProtoNames == {"constructor", "__proto__"}
Names == PlainNames \cup ProtoNames
\* The players of the leaderboard runs, in the order of their first command.
BoardOrder == <<"alice", "bob", "carol", "dave", "erin", "frank">>
BoardNames == {BoardOrder[i] : i \in 1..Len(BoardOrder)}
AllNames == Names \cup BoardNames

(***************************************************************************)
(* JavaScript object semantics for maps whose values are numbers.          *)
(***************************************************************************)
EmptyObj == [k \in {} |-> 0]

\* Property names every plain object inherits from Object.prototype.
ObjectPrototypeNames == ProtoNames

\* Truthiness of obj[k]: an own number is truthy unless 0; an inherited
\* builtin (a function or Object.prototype itself) is truthy; undefined is not.
JsTruthyNum(own, k) ==
    IF k \in DOMAIN own THEN own[k] # 0 ELSE k \in ObjectPrototypeNames

\* obj[k] = v for a number v: the __proto__ setter ignores primitives.
JsSetNum(own, k, v) ==
    IF k = "__proto__" THEN own
    ELSE [x \in (DOMAIN own) \cup {k} |-> IF x = k THEN v ELSE own[x]]

\* delete obj[k]: removes an own property, otherwise does nothing.
JsDelete(own, k) == [x \in (DOMAIN own) \ {k} |-> own[x]]

\* api.saveData(key, value): the host serialises the value as JSON, which
\* holds the own enumerable properties only.
JsonOf(own) == own

(***************************************************************************)
(* History record of the last handler.                                     *)
(***************************************************************************)
NoOp ==
    [cmd |-> "init", who |-> "", isPlayer |-> FALSE, reply |-> "",
     saved |-> FALSE, changed |-> FALSE, items |-> <<>>, tp |-> <<>>, num |-> 0, ret |-> 0,
     hadRecord |-> FALSE, wasClaimed |-> FALSE, afterReset |-> FALSE,
     fx |-> 0,                  \* spawnParticle and playSound calls made
     eventBefore |-> FALSE]     \* the entry of `who` had been created by its
                                \*   event and not removed since

(***************************************************************************)
(* spawn-kit.js                                                            *)
(***************************************************************************)
starterKit ==
    << [itemId |-> "minecraft:stone_pickaxe", count |-> 1],
       [itemId |-> "minecraft:stone_axe",     count |-> 1],
       [itemId |-> "minecraft:stone_shovel",  count |-> 1],
       [itemId |-> "minecraft:stone_sword",   count |-> 1],
       [itemId |-> "minecraft:bread",         count |-> 16],
       [itemId |-> "minecraft:torch",         count |-> 32],
       [itemId |-> "minecraft:oak_planks",    count |-> 64] >>

Bump(n) == IF n < 2 THEN n + 1 ELSE n

KitInit ==
    /\ received = EmptyObj
    /\ kitStore = EmptyObj
    /\ grants = [p \in Names |-> 0]
    /\ claimed = [p \in Names |-> "no"]
    /\ kitReloaded = [p \in Names |-> FALSE]

\* Mutant of KitAlreadyReceived: the test compares with `true`, which no
\* timestamp equals, so it never refuses.
KitAlreadyReceivedStrict(rec, playerName) == FALSE

\* if (received[playerName]) -- the "already received" test of /kit
KitAlreadyReceived(rec, playerName) == JsTruthyNum(rec, playerName)

\* /kit run by sender p; isPlayer is ctx.player, now is Date.now().
Kit(p, isPlayer, now) ==
    LET base == [NoOp EXCEPT !.cmd = "kit", !.who = p, !.isPlayer = isPlayer,
                             !.hadRecord = p \in DOMAIN received,
                             !.wasClaimed = claimed[p] = "yes",
                             !.eventBefore = claimed[p] = "yes",
                             !.afterReset = claimed[p] = "reset"]
    IN
    /\ clock' = now
    /\ UNCHANGED <<trackVars, homeVars, loadVars, webVars, schedVars, dataVars>>
    /\ IF ~isPlayer THEN
            /\ lastOp' = [base EXCEPT !.reply = "players-only"]
            /\ UNCHANGED <<received, kitStore, grants, claimed, kitReloaded>>
       ELSE IF KitAlreadyReceived(received, p) THEN
            /\ lastOp' = [base EXCEPT !.reply = "already-received"]
            /\ UNCHANGED <<received, kitStore, grants, claimed, kitReloaded>>
       ELSE
            /\ received' = JsSetNum(received, p, now)
            /\ kitStore' = JsonOf(received')
            /\ grants' = [grants EXCEPT ![p] = Bump(@)]
            /\ claimed' = [claimed EXCEPT ![p] = "yes"]
            /\ kitReloaded' = [kitReloaded EXCEPT ![p] = FALSE]
            /\ lastOp' = [base EXCEPT !.reply = "kit-received",
                                      !.items = starterKit,
                                      !.saved = TRUE, !.fx = 2,
                                      !.changed = received' # received]

\* /kit run by player p who is not refused, when the host fails as
\* `failure` says.  The handler has no try/catch: what ran before the
\* failing call stands, what follows it does not run, and a call that
\* throws has had no effect.
KitHostFailure(p, now, failure) ==
    LET given == IF failure.at <= Len(starterKit)
                 THEN failure.at - 1 ELSE Len(starterKit)
        marked == failure.at > Len(starterKit)           \* line 130 ran
        stored == failure.at > Len(starterKit) + 1       \* line 131 returned
        effects == IF failure.how = "null" THEN 0
                   ELSE IF failure.at > Len(starterKit) + 3 THEN 1 ELSE 0
        base == [NoOp EXCEPT !.cmd = "kit", !.who = p, !.isPlayer = TRUE,
                             !.hadRecord = p \in DOMAIN received,
                             !.wasClaimed = claimed[p] = "yes",
                             !.eventBefore = claimed[p] = "yes",
                             !.afterReset = claimed[p] = "reset"]
    IN
    /\ ~KitAlreadyReceived(received, p)
    /\ clock' = now
    /\ UNCHANGED <<trackVars, homeVars, loadVars, webVars, schedVars, dataVars>>
    /\ received' = IF marked THEN JsSetNum(received, p, now) ELSE received
    /\ kitStore' = IF stored THEN JsonOf(received') ELSE kitStore
    /\ grants' = [grants EXCEPT ![p] = IF given > 0 THEN Bump(@) ELSE @]
    /\ claimed' = [claimed EXCEPT ![p] = IF marked THEN "yes" ELSE @]
    /\ kitReloaded' = [kitReloaded EXCEPT ![p] = IF marked THEN FALSE ELSE @]
    /\ lastOp' = [base EXCEPT !.reply = "threw",
                              !.items = SubSeq(starterKit, 1, given),
                              !.saved = stored, !.fx = effects,
                              !.changed = received' # received]

\* if (!received[targetPlayer]) -- the "no record" test of /kitreset
KitResetNoRecord(rec, targetPlayer) == ~JsTruthyNum(rec, targetPlayer)

\* /kitreset <targetPlayer>, run by an operator.
KitReset(targetPlayer) ==
    LET base == [NoOp EXCEPT !.cmd = "kitreset", !.who = targetPlayer,
                             !.hadRecord = targetPlayer \in DOMAIN received,
                             !.eventBefore = claimed[targetPlayer] = "yes",
                             !.wasClaimed = claimed[targetPlayer] = "yes"]
    IN
    /\ UNCHANGED <<clock, trackVars, homeVars, loadVars, webVars, schedVars, dataVars>>
    /\ IF KitResetNoRecord(received, targetPlayer) THEN
            /\ lastOp' = [base EXCEPT !.reply = "no-kit-yet"]
            /\ UNCHANGED <<received, kitStore, grants, claimed, kitReloaded>>
       ELSE
            /\ received' = JsDelete(received, targetPlayer)
            /\ kitStore' = JsonOf(received')
            /\ grants' = [grants EXCEPT ![targetPlayer] = 0]
            /\ claimed' = [claimed EXCEPT ![targetPlayer] =
                                IF targetPlayer \in DOMAIN received
                                THEN "reset" ELSE @]
            /\ kitReloaded' = [kitReloaded EXCEPT ![targetPlayer] = FALSE]
            /\ lastOp' = [base EXCEPT !.reply = "reset",
                                      !.saved = TRUE,
                                      !.changed = received' # received]

\* JSON.stringify of an object whose own properties are numbers: the
\* document lists each own property with the numeral of its value.
KitStringify(own) == {<<k, own[k]>> : k \in DOMAIN own}

\* JSON.parse of such a document: a fresh object with one own property
\* per member.
KitParse(doc) ==
    [k \in {m[1] : m \in doc} |-> (CHOOSE m \in doc : m[1] = k)[2]]

\* Mutant of KitLoad: the stored value is ignored and the map starts empty.
KitLoadFresh(receivedRaw) == EmptyObj

\* received = JSON.parse(JSON.stringify(receivedRaw)) || {}
\* for a stored object of timestamps (an object, even an empty one, is
\* truthy, and neither call throws).
KitLoad(receivedRaw) == KitParse(KitStringify(receivedRaw))

\* onInitialize runs again (server restart or reload) and api.loadData
\* returns the value last passed to api.saveData, or the default {} when
\* nothing was saved.
KitInitialize ==
    /\ received' = KitLoad(kitStore)
    /\ kitReloaded' = [p \in Names |-> claimed[p] # "no"]
    /\ lastOp' = [NoOp EXCEPT !.cmd = "kit-initialize"]
    /\ UNCHANGED <<clock, kitStore, grants, claimed>>
    /\ UNCHANGED <<trackVars, homeVars, loadVars, webVars, schedVars, dataVars>>

(***************************************************************************)
(* player-tracker.js: the player-tracker mod                               *)
(***************************************************************************)
Commands == {"/kit", "/home set"}

TrackInit ==
    /\ activity = EmptyObj
    /\ builtins = [k \in ProtoNames |->
                      [written |-> FALSE, lastCommand |-> "", lastActive |-> 0]]
    /\ trackStore = EmptyObj
    /\ seen = [p \in AllNames |-> FALSE]
    /\ events = [p \in AllNames |-> [count |-> 0, last |-> ""]]

\* Mutant of TrackHasRecord: the test never finds a record, so every event
\* starts a fresh one.
TrackHasRecordNever(act, playerName) == FALSE

\* if (!activity[playerName]): an own record is an object, hence truthy; so
\* is the builtin found through the prototype.
TrackHasRecord(act, playerName) ==
    playerName \in DOMAIN act \/ playerName \in ObjectPrototypeNames

\* activity[playerName] = {...} for a fresh record (an object value: for
\* "__proto__" the setter would replace the prototype, but that assignment is
\* guarded by the test above and is never reached for a prototype name).
TrackCreate(act, playerName, now) ==
    [x \in (DOMAIN act) \cup {playerName} |->
        IF x = playerName
        THEN [commandCount |-> 0, lastCommand |-> "", lastActive |-> 0,
              firstSeen |-> now]
        ELSE act[x]]

\* The api.onCommandExecute callback; `created` is the Date.now() read when
\* a record is created (line 88), `now` the one read for lastActive.
CommandEvent(playerName, command, created, now) ==
    LET act1 == IF TrackHasRecord(activity, playerName) THEN activity
                ELSE TrackCreate(activity, playerName, created)
        base == [NoOp EXCEPT !.cmd = "event", !.who = playerName,
                             !.hadRecord = playerName \in DOMAIN activity]
    IN
    /\ clock' = now
    /\ UNCHANGED <<kitVars, homeVars, loadVars, webVars, schedVars, dataVars>>
    /\ events[playerName].count < MaxCount
    /\ seen' = [seen EXCEPT ![playerName] = TRUE]
    /\ events' = [events EXCEPT ![playerName] =
                        [count |-> @.count + 1, last |-> command]]
    /\ IF playerName \in DOMAIN act1 THEN
            \* the three updates land on the player's own record
            /\ activity' = [act1 EXCEPT
                              ![playerName].commandCount = @ + 1,
                              ![playerName].lastCommand = command,
                              ![playerName].lastActive = now]
            /\ UNCHANGED builtins
       ELSE
            \* activity[playerName] is Object (for "constructor") or
            \* Object.prototype (for "__proto__"): the updates land there
            \* (commandCount becomes NaN) and `activity` gets no property
            /\ activity' = act1
            /\ builtins' = [builtins EXCEPT ![playerName] =
                                [written |-> TRUE, lastCommand |-> command,
                                 lastActive |-> now]]
    /\ trackStore' = JsonOf(activity')
    /\ lastOp' = [base EXCEPT !.saved = TRUE,
                              !.changed = activity' # activity]

\* /activity [player]; targetPlayer is ctx.args.player || ctx.playerName.
\* The count shown is -1 where data.commandCount is not a number of the
\* target's own record.
Activity(targetPlayer) ==
    LET base == [NoOp EXCEPT !.cmd = "activity", !.who = targetPlayer,
                             !.hadRecord = targetPlayer \in DOMAIN activity,
                             !.eventBefore = seen[targetPlayer]]
    IN
    /\ UNCHANGED <<clock, kitVars, trackVars, homeVars, loadVars, webVars, schedVars, dataVars>>
    /\ IF ~TrackHasRecord(activity, targetPlayer)
       THEN lastOp' = [base EXCEPT !.reply = "no-activity"]
       ELSE lastOp' = [base EXCEPT !.reply = "activity-shown",
                          !.num = IF targetPlayer \in DOMAIN activity
                                  THEN activity[targetPlayer].commandCount
                                  ELSE -1]

\* for (let player in activity): the own keys in insertion order (players
\* enter `activity` in BoardOrder), then the enumerable properties of
\* Object.prototype, which are the three the callback wrote there if an
\* event named "__proto__" was delivered.
ForInOwn(act) == SelectSeq(BoardOrder, LAMBDA n : n \in DOMAIN act)
ForInInherited(blt) ==
    IF blt["__proto__"].written
    THEN <<"commandCount", "lastCommand", "lastActive">> ELSE <<>>

\* sorted.push({name: player, count: activity[player].commandCount}); -1
\* stands for the NaN read through an inherited property.
RECURSIVE BoardEntries(_, _, _)
BoardEntries(act, keys, i) ==
    IF i > Len(keys) THEN <<>>
    ELSE << [name |-> keys[i],
             count |-> IF keys[i] \in DOMAIN act
                       THEN act[keys[i]].commandCount ELSE -1] >>
         \o BoardEntries(act, keys, i + 1)

\* One step of the stable sort by (a, b) => b.count - a.count: e goes behind
\* the entries whose count is not smaller.
InsertByCount(sorted, e) ==
    LET before == SelectSeq(sorted, LAMBDA x : x.count >= e.count)
        after == SelectSeq(sorted, LAMBDA x : x.count < e.count)
    IN before \o <<e>> \o after

RECURSIVE SortByCount(_, _, _)
SortByCount(entries, i, sorted) ==
    IF i > Len(entries) THEN sorted
    ELSE SortByCount(entries, i + 1, InsertByCount(sorted, entries[i]))

\* /leaderboard.  With NaN counts the comparator is inconsistent (NaN
\* compares equal to everything) and the order Array.prototype.sort leaves
\* is implementation-defined: the NaN entries stay together behind the
\* k best players, k depending on the engine.
Leaderboard(k) ==
    LET own == SortByCount(BoardEntries(activity, ForInOwn(activity), 1), 1, <<>>)
        nan == BoardEntries(activity, ForInInherited(builtins), 1)
        sorted == SubSeq(own, 1, k) \o nan \o SubSeq(own, k + 1, Len(own))
        limit == IF Len(sorted) < 5 THEN Len(sorted) ELSE 5
    IN
    /\ k \in 0..Len(own)
    /\ nan = <<>> => k = 0
    /\ lastOp' = [NoOp EXCEPT !.cmd = "leaderboard", !.reply = "most-active",
                              !.items = SubSeq(sorted, 1, limit),
                              !.num = limit]
    /\ UNCHANGED <<clock, kitVars, trackVars, homeVars, loadVars, webVars,
                   schedVars, dataVars>>

\* Command events and /leaderboard with up to six players; the clock is
\* kept still and every event carries the same command.
BoardNext ==
    \/ \E playerName \in BoardNames \cup {"__proto__"} :
            /\ \A i \in 1..Len(BoardOrder) :
                    (BoardOrder[i] = playerName /\ i > 1) =>
                        BoardOrder[i - 1] \in DOMAIN activity
            /\ CommandEvent(playerName, "/kit", clock, clock)
    \/ \E k \in 0..Len(BoardOrder) : Leaderboard(k)

TrackNext ==
    \/ \E playerName \in Names, command \in Commands, now \in clock..MaxClock :
            CommandEvent(playerName, command, now, now)
    \/ \E targetPlayer \in Names : Activity(targetPlayer)

\* Command events alone, with the two clock readings of one callback apart:
\* the clock may advance between them, never go back.
\* The players are two ordinary names and one name that is found on the
\* prototype of `activity`, which never gets a record of its own.
RecordNext ==
    \E playerName \in PlainNames \cup {"constructor"}, command \in Commands :
        \E created \in clock..MaxClock :
            \E now \in created..MaxClock :
                CommandEvent(playerName, command, created, now)

(***************************************************************************)
(* player-tracker.js: the teleport-home mod                                *)
(***************************************************************************)
\* What api.getPlayer reports: coordinates are opaque tokens.
Locs ==
    { [x |-> "x1", y |-> "y1", z |-> "z1", dimension |-> "overworld",
       yaw |-> "0", pitch |-> "0"],
      [x |-> "x2", y |-> "y2", z |-> "z2", dimension |-> "the_nether",
       yaw |-> "90", pitch |-> "0"] }

\* A builtin (Object, Object.prototype) read as a home: every field undefined.
BuiltinAsHome ==
    [x |-> "undefined", y |-> "undefined", z |-> "undefined",
     dimension |-> "undefined", yaw |-> "undefined", pitch |-> "undefined"]

\* ctx.args.action as typed; "" is the omitted argument.
ActionArgs == {"", "set", "SET", "delete", "list", "go"}

ToLowerCase(str) == IF str = "SET" THEN "set" ELSE str

HomeInit ==
    /\ clock = 1
    /\ lastOp = NoOp
    /\ homes = EmptyObj
    /\ homesProto = <<>>
    /\ homeStore = EmptyObj
    /\ homeSet = [p \in Names |-> FALSE]
    /\ homeAt = [p \in Names |-> <<>>]

\* Truthiness of homes[k]: own records, the prototype object and inherited
\* builtins are all objects.
HomeTruthy(own, k) == k \in DOMAIN own \/ k \in ObjectPrototypeNames

\* homes[k]
HomeGet(own, proto, k) ==
    IF k \in DOMAIN own THEN own[k]
    ELSE IF k = "__proto__" /\ proto # <<>> THEN proto[1]
    ELSE BuiltinAsHome

\* homes[k] for any property name k, as the handlers read it: an own record,
\* else what the prototype chain gives: a field of the record that was made
\* the prototype, the prototype itself, a builtin of Object.prototype, or
\* undefined.
HomeLookup(own, proto, k) ==
    LET val(kind, rec, prim) == [kind |-> kind, rec |-> rec, prim |-> prim] IN
    IF k \in DOMAIN own THEN val("record", own[k], "")
    ELSE IF proto # <<>> /\ k \in DOMAIN proto[1]
         THEN val("field", BuiltinAsHome, proto[1][k])
    ELSE IF proto # <<>> /\ k = "__proto__"
         THEN val("record", proto[1], "")
    ELSE IF k \in ObjectPrototypeNames THEN val("builtin", BuiltinAsHome, k)
    ELSE val("undefined", BuiltinAsHome, "")

\* homes[k] = h for an object h: own properties after the assignment
HomeSetOwn(own, k, h) ==
    IF k = "__proto__" THEN own
    ELSE [x \in (DOMAIN own) \cup {k} |-> IF x = k THEN h ELSE own[x]]

\* homes[k] = h for an object h: prototype after the assignment (the
\* __proto__ setter makes h the prototype of `homes`)
HomeSetProto(proto, k, h) == IF k = "__proto__" THEN <<h>> ELSE proto

\* /home [action] run by sender p standing at loc.
Home(p, isPlayer, arg, loc) ==
    LET action == IF arg # "" THEN ToLowerCase(arg) ELSE "tp"
        base == [NoOp EXCEPT !.cmd = "home " \o action, !.who = p,
                             !.isPlayer = isPlayer,
                             !.eventBefore = homeSet[p],
                             !.hadRecord = p \in DOMAIN homes]
        fail(msg) == /\ lastOp' = [base EXCEPT !.reply = msg]
                     /\ UNCHANGED homeVars
    IN
    /\ UNCHANGED <<clock, kitVars, trackVars, loadVars, webVars, schedVars, dataVars>>
    /\ IF ~isPlayer THEN fail("players-only")
       ELSE IF action = "set" THEN
            /\ homes' = HomeSetOwn(homes, p, loc)
            /\ homesProto' = HomeSetProto(homesProto, p, loc)
            /\ homeStore' = JsonOf(homes')
            /\ homeSet' = [homeSet EXCEPT ![p] = TRUE]
            /\ homeAt' = [homeAt EXCEPT ![p] = <<loc>>]
            /\ lastOp' = [base EXCEPT !.reply = "home-set", !.saved = TRUE,
                            !.fx = 2,
                            !.changed = <<homes', homesProto'>>
                                            # <<homes, homesProto>>]
       ELSE IF action = "delete" THEN
            IF ~HomeTruthy(homes, p) THEN fail("no-home")
            ELSE
                /\ homes' = JsDelete(homes, p)
                /\ homeStore' = JsonOf(homes')
                /\ homeSet' = [homeSet EXCEPT ![p] = FALSE]
                /\ homeAt' = [homeAt EXCEPT ![p] = <<>>]
                /\ UNCHANGED homesProto
                /\ lastOp' = [base EXCEPT !.reply = "home-deleted",
                                          !.saved = TRUE,
                                          !.changed = homes' # homes]
       ELSE IF action = "list" THEN
            IF ~HomeTruthy(homes, p) THEN fail("no-home")
            ELSE /\ lastOp' = [base EXCEPT !.reply = "home-listed"]
                 /\ UNCHANGED homeVars
       ELSE
            IF ~HomeTruthy(homes, p) THEN fail("no-home")
            ELSE LET home == HomeGet(homes, homesProto, p) IN
                 /\ lastOp' = [base EXCEPT !.reply = "teleported", !.fx = 3,
                                  !.tp = <<home.x, home.y, home.z>>]
                 /\ UNCHANGED homeVars

HomeNext ==
    \E p \in Names, isPlayer \in BOOLEAN, arg \in ActionArgs, loc \in Locs :
        Home(p, isPlayer, arg, loc)

(***************************************************************************)
(* onInitialize of the v1.0.0 mods: loading the stored mapping             *)
(***************************************************************************)
Mods == {"spawn-kit", "player-tracker", "teleport-home"}

\* JavaScript values api.loadData can hand back.  `own` holds the named own
\* properties (name -> "rec"), `prim` the text of a primitive, `len` the
\* length of an array.
JsVal(kind, own, prim, len) == [kind |-> kind, own |-> own, prim |-> prim, len |-> len]
NoProps == [k \in {} |-> "rec"]
JsObject(own) == JsVal("object", own, "", 0)
JsNull == JsVal("null", NoProps, "", 0)
JsUndefined == JsVal("undefined", NoProps, "", 0)
JsString(str) == JsVal("string", NoProps, str, 0)
JsNumber(str) == JsVal("number", NoProps, str, 0)
JsArray(len) == JsVal("array", NoProps, "", len)
JsCyclic == JsVal("cyclic", NoProps, "", 0)     \* an object that refers to itself

WellFormedRaw == { JsObject(NoProps), JsObject([k \in {"alice"} |-> "rec"]) }
MalformedRaw ==
    { JsNull, JsUndefined, JsString(""), JsString("corrupt"),
      JsNumber("0"), JsNumber("5"), JsArray(0), JsArray(1), JsCyclic }
RawValues == WellFormedRaw \cup MalformedRaw

\* JSON.stringify(v): throws on a cycle, returns undefined for undefined,
\* otherwise the JSON document of v (an array's named properties are not
\* part of it).
JsonStringify(v) ==
    IF v.kind = "cyclic" THEN [threw |-> TRUE, undef |-> FALSE, doc |-> JsNull]
    ELSE IF v.kind = "undefined" THEN [threw |-> FALSE, undef |-> TRUE, doc |-> JsNull]
    ELSE IF v.kind = "array" THEN [threw |-> FALSE, undef |-> FALSE, doc |-> JsArray(v.len)]
    ELSE [threw |-> FALSE, undef |-> FALSE, doc |-> v]

\* JSON.parse(text): the argument undefined is read as the text "undefined",
\* which is not JSON (SyntaxError); a document parses to its value.
JsonParse(text) ==
    IF text.undef THEN [threw |-> TRUE, val |-> JsNull]
    ELSE [threw |-> FALSE, val |-> text.doc]

\* Truthiness of a value: null, undefined, "" and 0 are falsy.
JsTruthy(v) ==
    /\ v.kind \notin {"null", "undefined"}
    /\ ~(v.kind = "string" /\ v.prim = "")
    /\ ~(v.kind = "number" /\ v.prim = "0")

\* try { x = JSON.parse(JSON.stringify(raw)) || {}; }
\* catch (e) { api.log("... Failed to parse ..."); x = {}; }
LoadOrDefault(raw) ==
    LET text == JsonStringify(raw)
        parsed == JsonParse(text)
    IN IF text.threw \/ parsed.threw
       THEN [value |-> JsObject(NoProps), warned |-> TRUE]
       ELSE IF JsTruthy(parsed.val)
            THEN [value |-> parsed.val, warned |-> FALSE]
            ELSE [value |-> JsObject(NoProps), warned |-> FALSE]

\* v[p] = <object or number> for a plain name p: objects and arrays get an
\* own property; a primitive string or number has none to give.
CanHoldProps(v) == v.kind \in {"object", "array"}
JsSetProp(v, p) ==
    IF CanHoldProps(v)
    THEN [v EXCEPT !.own = [x \in (DOMAIN v.own) \cup {p} |-> "rec"]]
    ELSE v

NoBoot ==
    [phase |-> "none", mod |-> "", raw |-> JsNull, value |-> JsNull,
     strict |-> FALSE, warned |-> FALSE, registered |-> FALSE,
     who |-> "", threw |-> FALSE, saved |-> FALSE, stored |-> JsNull]

LoadInit == boot = NoBoot

\* onInitialize of `mod` when api.loadData returns raw; strict tells whether
\* the host evaluates the script as strict code.  The registrations follow
\* the try/catch unconditionally.
Initialize(mod, raw, strict) ==
    LET loaded == LoadOrDefault(raw) IN
    /\ boot' = [NoBoot EXCEPT !.phase = "loaded", !.mod = mod, !.raw = raw,
                              !.value = loaded.value, !.strict = strict,
                              !.warned = loaded.warned, !.registered = TRUE]
    /\ lastOp' = [NoOp EXCEPT !.cmd = "initialize", !.who = mod]
    /\ UNCHANGED <<clock, kitVars, trackVars, homeVars, webVars, schedVars, dataVars>>

\* The first mutating handler after onInitialize, for a player p with no
\* entry yet: /kit (spawn-kit), a command event (player-tracker), /home set
\* (teleport-home).  On a primitive the assignment v[p] = ... is dropped
\* in sloppy code and throws a TypeError in strict code; the tracker then
\* reads v[p].commandCount of undefined and throws in either case.
FirstMutation(p) ==
    LET v == boot.value
        throws == /\ ~CanHoldProps(v)
                  /\ (boot.strict \/ boot.mod = "player-tracker")
        after == IF throws THEN v ELSE JsSetProp(v, p)
    IN
    /\ boot.phase = "loaded"
    /\ boot.registered
    /\ p \notin DOMAIN v.own
    /\ boot' = [boot EXCEPT !.phase = "mutated", !.who = p, !.value = after,
                            !.threw = throws, !.saved = ~throws,
                            !.stored = IF throws THEN JsNull
                                       ELSE JsonStringify(after).doc]
    /\ lastOp' = [NoOp EXCEPT !.cmd = "first-mutation", !.who = p]
    /\ UNCHANGED <<clock, kitVars, trackVars, homeVars, webVars, schedVars, dataVars>>

LoadNext ==
    \/ \E mod \in Mods, raw \in RawValues, strict \in BOOLEAN :
            Initialize(mod, raw, strict)
    \/ \E p \in PlainNames : FirstMutation(p)

(***************************************************************************)
(* version.js: the version selector of the documentation pages             *)
(*                                                                         *)
(* A URL path is the sequence of its segments: "/ThreadJS/v1.0.0/index.html"*)
(* is <<"ThreadJS", "v1.0.0", "index.html">>, and a path that ends with a   *)
(* slash has a last segment "".                                            *)
(***************************************************************************)
PageKeys == {"api", "inspector"}

PagePath(key) == IF key = "api" THEN "index.html" ELSE "inspector.html"

\* One entry of VERSION_CONFIG whose pages cover `keys`; the main version
\* lives in the site root, every other version in a directory named by its id.
VersionEntry(id, keys) ==
    [id |-> id,
     pages |-> [k \in keys |-> IF id = "main" THEN <<PagePath(k)>>
                                ELSE <<id, PagePath(k)>>]]

\* The table of the source, and tables as the "Add more versions like" note
\* allows them: a version without an inspector page in front of one with it.
VERSION_CONFIG == << VersionEntry("main", PageKeys), VersionEntry("v1.0.0", PageKeys) >>
VersionTables ==
    { VERSION_CONFIG,
      << VersionEntry("main", {"api"}), VersionEntry("v1.0.0", PageKeys) >>,
      << VersionEntry("main", PageKeys), VersionEntry("v1.0.0", {"api"}),
         VersionEntry("v1.1.0", PageKeys) >> }

\* Where the site is served from: the host root or a GitHub Pages project.
SiteBases == { <<>>, <<"ThreadJS">> }

\* str.replace(/\/+$/, ""): drop the trailing slashes
RECURSIVE StripTrailingSlashes(_)
StripTrailingSlashes(path) ==
    IF path # <<>> /\ path[Len(path)] = ""
    THEN StripTrailingSlashes(SubSeq(path, 1, Len(path) - 1))
    ELSE path

\* currentPath.endsWith(hrefPath), hrefPath starting with "/"
EndsWith(path, suffix) ==
    /\ Len(suffix) <= Len(path)
    /\ SubSeq(path, Len(path) - Len(suffix) + 1, Len(path)) = suffix

\* The browser resolving a relative href against the current location: the
\* last segment of the current path is replaced by the href.
ResolveHref(path, href) == SubSeq(path, 1, Len(path) - 1) \o href

HasPage(v, pageKey) == pageKey \in DOMAIN v.pages

\* The forEach of init: the options appended, in table order.
RECURSIVE OptionsOf(_, _, _)
OptionsOf(table, idx, pageKey) ==
    IF idx > Len(table) THEN <<>>
    ELSE (IF HasPage(table[idx], pageKey) THEN <<table[idx].id>> ELSE <<>>)
         \o OptionsOf(table, idx + 1, pageKey)

\* The forEach of init: currentIndex, the (0-based) table index of the last
\* entry whose page path ends the current path; 0 when none does.
RECURSIVE CurrentIndex(_, _, _, _, _)
CurrentIndex(table, idx, pageKey, currentPath, found) ==
    IF idx > Len(table) THEN found
    ELSE CurrentIndex(table, idx + 1, pageKey, currentPath,
            IF /\ HasPage(table[idx], pageKey)
               /\ EndsWith(currentPath,
                           StripTrailingSlashes(table[idx].pages[pageKey]))
            THEN idx - 1 ELSE found)

\* select.selectedIndex = i: an index with no option deselects everything (-1).
SetSelectedIndex(options, i) == IF i >= 0 /\ i < Len(options) THEN i ELSE -1

\* select.value
SelectValue(sel) ==
    IF sel.selectedIndex >= 0 /\ sel.selectedIndex < Len(sel.options)
    THEN sel.options[sel.selectedIndex + 1] ELSE ""

\* VERSION_CONFIG.find(v => v.id === selectedId): 0 when there is none
FindVersion(table, selectedId) ==
    IF \E i \in 1..Len(table) : table[i].id = selectedId
    THEN CHOOSE i \in 1..Len(table) :
            /\ table[i].id = selectedId
            /\ \A j \in 1..(i - 1) : table[j].id # selectedId
    ELSE 0

EmptySelect == [options |-> <<>>, selectedIndex |-> -1, listening |-> FALSE,
                note |-> ""]

\* The page the browser shows: site base, version id, page type; id is
\* "none" for a path that is no page of the table.
NoPage == [base |-> <<>>, key |-> "api", table |-> <<>>, id |-> "none",
           exists |-> FALSE]

\* The ids of the <select> and of the note element in a docs page.
ElementIds == {"versionSelect", "versionNote"}

\* The argument of initThreadJsVersionSelector: `given` is FALSE for a call
\* without argument; a property that is missing or empty is "".
InitOptions(given, selectId, noteId, pageKey) ==
    [given |-> given, selectId |-> selectId, noteId |-> noteId,
     pageKey |-> pageKey]
NoOptions == InitOptions(FALSE, "", "", "")

\* The call of the usage note on a page of type `key`.
UsualOptions(key) == InitOptions(TRUE, "versionSelect", "versionNote", key)

NoWebOp == [op |-> "none", entry |-> "", threw |-> FALSE, from |-> NoPage,
            chosen |-> "", options |-> NoOptions, warned |-> ""]

WebInit ==
    /\ pathname = <<>>
    /\ viewing = NoPage
    /\ globals = {}
    /\ versionConfig = <<>>
    /\ exposedConfig = <<>>
    /\ select = EmptySelect
    /\ webOp = NoWebOp

\* The names a page script can use to reach the initializer: the bare
\* global of the usage note, and the property of the namespace object.
EntryPoints == {"initThreadJsVersionSelector", "ThreadJsVersions.init"}

\* The global a call through `entry` needs to be defined.
GlobalOf(entry) ==
    IF entry = "initThreadJsVersionSelector" THEN entry ELSE "ThreadJsVersions"

\* The page of the table that `path` is, for a site served from `base`.
PageAt(table, base, key, path) ==
    LET hits == {i \in 1..Len(table) : /\ HasPage(table[i], key)
                                       /\ base \o table[i].pages[key] = path}
    IN [base |-> base, key |-> key, table |-> table,
        id |-> IF hits = {} THEN "none" ELSE table[CHOOSE i \in hits : TRUE].id,
        exists |-> hits # {}]

\* The browser opens the `key` page of version `idx` of a site built with `table`.
OpenPage(table, base, idx, key) ==
    /\ idx \in 1..Len(table)
    /\ HasPage(table[idx], key)
    /\ pathname' = base \o table[idx].pages[key]
    /\ viewing' = PageAt(table, base, key, pathname')
    /\ globals' = {}
    /\ versionConfig' = <<>>
    /\ exposedConfig' = <<>>
    /\ select' = EmptySelect
    /\ webOp' = [NoWebOp EXCEPT !.op = "open"]
    /\ UNCHANGED <<clock, lastOp, kitVars, trackVars, homeVars, loadVars,
                   schedVars, dataVars>>

\* The browser opens a page that uses the selector under a path of its own:
\* a directory URL (trailing slash) or a custom file name.
OtherTails == { <<"">>, <<"custom.html">> }
OpenOther(table, base, key, tail) ==
    /\ pathname' = base \o tail
    /\ viewing' = [PageAt(table, base, key, pathname') EXCEPT !.exists = TRUE]
    /\ globals' = {}
    /\ versionConfig' = <<>>
    /\ exposedConfig' = <<>>
    /\ select' = EmptySelect
    /\ webOp' = [NoWebOp EXCEPT !.op = "open"]
    /\ UNCHANGED <<clock, lastOp, kitVars, trackVars, homeVars, loadVars,
                   schedVars, dataVars>>

\* VERSION_CONFIG.slice(): a new array holding the same entry objects.
Slice(table) == [i \in 1..Len(table) |-> i]

\* <script src="version.js" defer>: the IIFE runs; the only name it puts
\* on `window` is ThreadJsVersions.
LoadScript ==
    /\ viewing.exists
    /\ "ThreadJsVersions" \notin globals
    /\ globals' = globals \cup {"ThreadJsVersions"}
    /\ versionConfig' = viewing.table
    /\ exposedConfig' = Slice(viewing.table)
    /\ webOp' = [NoWebOp EXCEPT !.op = "load"]
    /\ UNCHANGED <<pathname, viewing, select>>
    /\ UNCHANGED <<clock, lastOp, kitVars, trackVars, homeVars, loadVars,
                   schedVars, dataVars>>

\* initThreadJsVersionSelector({selectId, noteId, pageKey}) with both
\* elements present: the <select> and the note afterwards.
InitSelector(table, pageKey, path) ==
    LET options == OptionsOf(table, 1, pageKey)
        currentIndex == CurrentIndex(table, 1, pageKey,
                                     StripTrailingSlashes(path), 0)
    IN [options |-> options,
        selectedIndex |-> SetSelectedIndex(options, currentIndex),
        listening |-> TRUE,
        note |-> table[currentIndex + 1].id]

\* Mutant of InitCall: the test of the argument only looks at selectId.
InitCallLax(options, table, path, sel) ==
    IF ~options.given \/ options.selectId = ""
    THEN [select |-> sel, warned |-> "missing options"]
    ELSE IF options.selectId \notin ElementIds
    THEN [select |-> sel, warned |-> "element not found"]
    ELSE LET r == InitSelector(table, options.pageKey, path)
         IN [select |-> [r EXCEPT !.note = IF options.noteId \in ElementIds
                                           THEN r.note ELSE sel.note],
             warned |-> ""]

\* initThreadJsVersionSelector(options) on a page whose <select> and note
\* are `sel`: the elements afterwards and the warning logged, "" for none.
InitCall(options, table, path, sel) ==
    IF ~options.given \/ options.selectId = "" \/ options.pageKey = ""
    THEN [select |-> sel, warned |-> "missing options"]
    ELSE IF options.selectId \notin ElementIds
    THEN [select |-> sel, warned |-> "element not found"]
    ELSE LET r == InitSelector(table, options.pageKey, path)
         IN [select |-> [r EXCEPT !.note = IF options.noteId \in ElementIds
                                           THEN r.note ELSE sel.note],
             warned |-> ""]

\* The page script calls the initializer through `entry`; an undefined
\* global raises a ReferenceError and nothing else happens.
PageScriptCall(entry, options) ==
    /\ viewing.exists
    /\ "ThreadJsVersions" \in globals
    /\ ~select.listening
    /\ webOp.op # "init"
    /\ UNCHANGED <<pathname, viewing, globals, versionConfig, exposedConfig>>
    /\ UNCHANGED <<clock, lastOp, kitVars, trackVars, homeVars, loadVars,
                   schedVars, dataVars>>
    /\ IF GlobalOf(entry) \notin globals
       THEN /\ webOp' = [NoWebOp EXCEPT !.op = "init", !.entry = entry,
                                        !.options = options, !.threw = TRUE]
            /\ UNCHANGED select
       ELSE LET r == InitCall(options, versionConfig, pathname, select) IN
            /\ webOp' = [NoWebOp EXCEPT !.op = "init", !.entry = entry,
                                        !.options = options,
                                        !.warned = r.warned]
            /\ select' = r.select

\* window.location.href = target
NavigateTo(path, target) == ResolveHref(path, target)

\* The user picks the option at index i: the change listener runs.
Change(i) ==
    LET table == versionConfig
        pageKey == viewing.key  \* the pageKey of the call that registered
                                \*   the listener: the page's own type
        picked == [select EXCEPT !.selectedIndex = i]
        found == FindVersion(table, SelectValue(picked))
    IN
    /\ select.listening
    /\ i \in 0..(Len(select.options) - 1)
    /\ i # select.selectedIndex
    /\ webOp' = [NoWebOp EXCEPT !.op = "change", !.from = viewing,
                                !.chosen = SelectValue(picked)]
    /\ UNCHANGED <<clock, lastOp, kitVars, trackVars, homeVars, loadVars,
                   schedVars, dataVars>>
    /\ IF found = 0 \/ ~HasPage(table[found], pageKey)
       THEN /\ select' = picked
            /\ UNCHANGED <<pathname, viewing, globals, versionConfig,
                           exposedConfig>>
       ELSE /\ pathname' = NavigateTo(pathname, table[found].pages[pageKey])
            /\ viewing' = PageAt(viewing.table, viewing.base, viewing.key,
                                 pathname')
            /\ globals' = {}
            /\ versionConfig' = <<>>
            /\ exposedConfig' = <<>>
            /\ select' = EmptySelect

WebNext ==
    \/ \E table \in VersionTables, base \in SiteBases, idx \in 1..3, key \in PageKeys :
            OpenPage(table, base, idx, key)
    \/ \E table \in VersionTables, base \in SiteBases, key \in PageKeys,
          tail \in OtherTails :
            OpenOther(table, base, key, tail)
    \/ LoadScript
    \/ \E entry \in EntryPoints :
            PageScriptCall(entry, UsualOptions(viewing.key))
    \/ \E i \in 0..2 : Change(i)

\* version.js called with any arguments a page script may pass to the
\* initializer: none at all, or an object whose selectId and noteId name the
\* page's elements, are missing or empty (""), or name no element, and
\* whose pageKey is the page's type or is missing or empty.
InitNext ==
    \/ \E table \in VersionTables, base \in SiteBases, idx \in 1..3, key \in PageKeys :
            OpenPage(table, base, idx, key)
    \/ \E table \in VersionTables, base \in SiteBases, key \in PageKeys,
          tail \in OtherTails :
            OpenOther(table, base, key, tail)
    \/ LoadScript
    \/ \E entry \in EntryPoints :
         \E options \in {NoOptions} \cup
                { InitOptions(TRUE, selectId, noteId, pageKey) :
                    selectId \in {"versionSelect", "", "noSuchSelect"},
                    noteId \in {"versionNote", "", "noSuchNote"},
                    pageKey \in {viewing.key, ""} } :
            PageScriptCall(entry, options)
    \/ \E i \in 0..2 : Change(i)

\* What another script can do with window.ThreadJsVersions.config.
ConfigFrame ==
    /\ "ThreadJsVersions" \in globals
    /\ webOp' = [NoWebOp EXCEPT !.op = "config"]
    /\ UNCHANGED <<pathname, viewing, globals, select>>
    /\ UNCHANGED <<clock, lastOp, kitVars, trackVars, homeVars, loadVars,
                   schedVars, dataVars>>

\* config.push({...}): an entry object of the other script's making
ConfigPush ==
    /\ ConfigFrame
    /\ Len(exposedConfig) <= Len(versionConfig)
    /\ exposedConfig' = Append(exposedConfig, 0)
    /\ UNCHANGED versionConfig

\* config.pop()
ConfigPop ==
    /\ ConfigFrame
    /\ exposedConfig # <<>>
    /\ exposedConfig' = SubSeq(exposedConfig, 1, Len(exposedConfig) - 1)
    /\ UNCHANGED versionConfig

\* config[i - 1].id = id: the element is the entry object itself
ConfigSetId(i, id) ==
    /\ ConfigFrame
    /\ i \in 1..Len(exposedConfig)
    /\ exposedConfig[i] # 0
    /\ versionConfig' = [versionConfig EXCEPT ![exposedConfig[i]].id = id]
    /\ UNCHANGED exposedConfig

\* config[i - 1].pages = {}, or config[i - 1].pages[key] = href
ConfigSetPages(i, pages) ==
    /\ ConfigFrame
    /\ i \in 1..Len(exposedConfig)
    /\ exposedConfig[i] # 0
    /\ versionConfig' = [versionConfig EXCEPT ![exposedConfig[i]].pages = pages]
    /\ UNCHANGED exposedConfig

\* version.js with the table of the source, used as its usage note says,
\* next to a script that writes to window.ThreadJsVersions.config.
ConfigNext ==
    \/ \E base \in SiteBases, idx \in 1..2, key \in PageKeys :
            OpenPage(VERSION_CONFIG, base, idx, key)
    \/ LoadScript
    \/ PageScriptCall("ThreadJsVersions.init", UsualOptions(viewing.key))
    \/ \E i \in 0..2 : Change(i)
    \/ ConfigPush
    \/ ConfigPop
    \/ \E i \in 1..2 : ConfigSetId(i, "other")
    \* another script writes an entry's pages: none, or a page of its own
    \/ \E i \in 1..2 :
         \E pages \in { [k \in {} |-> <<>>],
                        [k \in PageKeys |-> <<"elsewhere.html">>] } :
            ConfigSetPages(i, pages)


(***************************************************************************)
(* Sample mod main.js: state, scheduleTask, join, disconnect, tick          *)
(***************************************************************************)
Players == {"u1", "u2"}         \* player.getUuid().toString()

NameOf(uuid) == IF uuid = "u1" THEN "Steve" ELSE "Alex"

EmptyMap == [k \in {} |-> 0]    \* new HashMap()

MapPut(map, k, v) == [x \in (DOMAIN map) \cup {k} |-> IF x = k THEN v ELSE map[x]]

MapRemove(map, k) == [x \in (DOMAIN map) \ {k} |-> map[x]]

AmbientPeriod == 1200

MaxTick == AmbientPeriod + TicksAfter

\* The ticks at which the host delivers joins, disconnects and commands:
\* the first EarlyTicks ticks and the LateTicks ticks before the ambient effect.
Busy(t) ==
    \/ t < EarlyTicks
    \/ t >= AmbientPeriod - LateTicks /\ t < AmbientPeriod

\* Task actions.  "particles" and "tip" are the two closures of the join
\* handler (both swallow their own exceptions); "throw" raises; "chain"
\* calls scheduleTask(d, noop) from inside the sweep.
\* `who` is the player the closure captured.
NoopAction == [kind |-> "noop", d |-> 0, who |-> ""]
JoinParticles(uuid) == [kind |-> "particles", d |-> 0, who |-> uuid]
JoinTip(uuid) == [kind |-> "tip", d |-> 0, who |-> uuid]
CallActions ==
    { [kind |-> "throw", d |-> 0, who |-> ""],
      [kind |-> "chain", d |-> 0, who |-> ""],
      [kind |-> "chain", d |-> 1, who |-> ""] }
CallDelays == {0, 1, 2}

\* Actions that call scheduleTask(d, <the same function>) when they run:
\* `function again() { scheduleTask(d, again); }`.
AgainActions ==
    { [kind |-> "again", d |-> d, who |-> ""] : d \in {-1, 0, 1} }

\* Mutant of scheduleTask: the target is the delay itself, not relative to
\* the current tick.
scheduleTaskAbsolute(list, tc, delayTicks, action, n) ==
    Append(list, [id |-> <<tc, n>>, tickTarget |-> delayTicks, action |-> action,
                  at |-> tc, delay |-> delayTicks])

\* scheduleTask(delayTicks, action) called while tickCounter = tc.  The
\* fields id, at and delay are history: they name the entry (the n-th call
\* made at tick tc) and remember the call.
scheduleTask(list, tc, delayTicks, action, n) ==
    Append(list, [id |-> <<tc, n>>, tickTarget |-> tc + delayTicks, action |-> action,
                  at |-> tc, delay |-> delayTicks])

\* Mutant of RemoveAt: the last entry is moved into the freed slot.
RemoveAtSwap(list, i) ==
    IF i = Len(list) THEN SubSeq(list, 1, i - 1)
    ELSE SubSeq(list, 1, i - 1) \o <<list[Len(list)]>>
            \o SubSeq(list, i + 1, Len(list) - 1)

\* scheduledTasks.remove(i), i counted from 1
RemoveAt(list, i) == SubSeq(list, 1, i - 1) \o SubSeq(list, i + 1, Len(list))

\* Mutant of TaskDue: strict comparison, a task runs one tick late.
TaskDueStrict(tc, task) == tc > task.tickTarget

\* if (tickCounter >= task.tickTarget)
TaskDue(tc, task) == tc >= task.tickTarget

\* try { task.action(); } catch (e) { LOGGER.warn(...) }: the list and the id
\* counter after the action ran, and whether it threw.
RunAction(task, list, tc, n) ==
    IF task.action.kind = "chain"
    THEN [tasks |-> scheduleTask(list, tc, task.action.d, NoopAction, n),
          nextId |-> n + 1, threw |-> FALSE]
    ELSE IF task.action.kind = "again"
    THEN [tasks |-> scheduleTask(list, tc, task.action.d, task.action, n),
          nextId |-> n + 1, threw |-> FALSE]
    ELSE [tasks |-> list, nextId |-> n,
          threw |-> task.action.kind = "throw"]

\* Mutant of Sweep: the removal sits inside the try block, so a task whose
\* action throws stays in the list and is skipped for this tick.
RECURSIVE SweepKeepFailed(_, _, _, _, _)
SweepKeepFailed(list, i, tc, log, n) ==
    IF i > Len(list) THEN [tasks |-> list, invoked |-> log, nextId |-> n]
    ELSE IF TaskDue(tc, list[i]) THEN
        LET ran == RunAction(list[i], list, tc, n)
            entry == [task |-> list[i], threw |-> ran.threw]
        IN  IF ran.threw
            THEN SweepKeepFailed(ran.tasks, i + 1, tc, Append(log, entry),
                                 ran.nextId)
            ELSE SweepKeepFailed(RemoveAt(ran.tasks, i), i, tc,
                                 Append(log, entry), ran.nextId)
    ELSE SweepKeepFailed(list, i + 1, tc, log, n)

\* The while loop of onEndTick from index i on: the list it leaves, the
\* entries it invoked (in order, with whether the action threw) and the id
\* counter.
RECURSIVE Sweep(_, _, _, _, _)
Sweep(list, i, tc, log, n) ==
    IF i > Len(list) THEN [tasks |-> list, invoked |-> log, nextId |-> n]
    ELSE IF TaskDue(tc, list[i]) THEN
        LET ran == RunAction(list[i], list, tc, n)
            entry == [task |-> list[i], threw |-> ran.threw]
        IN  Sweep(RemoveAt(ran.tasks, i), i, tc, Append(log, entry), ran.nextId)
    ELSE Sweep(list, i + 1, tc, log, n)

NoTick == [before |-> <<>>, invoked |-> <<>>, warned |-> 0,
           ambientRan |-> FALSE, ambientFor |-> {}]

SampleInit ==
    /\ tickCounter = 0
    /\ scheduledTasks = <<>>
    /\ playerData = EmptyMap
    /\ online = {}
    /\ sessionStart = [u \in Players |-> 0]
    /\ seqno = 0
    /\ tickLog = NoTick
    /\ sweepAt = 0
    /\ homeData = EmptyMap
    /\ warpData = EmptyMap
    /\ dailyClaims = EmptyMap
    /\ lostAtInit = [home |-> EmptyMap, warp |-> EmptyMap, daily |-> EmptyMap,
                     grants |-> [u \in Players |-> 0]]
    /\ grantLog = [u \in Players |-> 0]

Warned(log) == Cardinality({k \in 1..Len(log) : log[k].threw})

\* ServerTickEvents.END_SERVER_TICK
Tick ==
    /\ tickCounter < MaxTick
    /\ LET tc == tickCounter + 1
           r == Sweep(scheduledTasks, 1, tc, <<>>, 0)
       IN
       /\ tickCounter' = tc
       /\ scheduledTasks' = r.tasks
       /\ seqno' = r.nextId
       /\ tickLog' = [before |-> scheduledTasks, invoked |-> r.invoked,
                      warned |-> Warned(r.invoked),
                      ambientRan |-> tc % AmbientPeriod = 0,
                      ambientFor |-> IF tc % AmbientPeriod = 0
                                     THEN online ELSE {}]
    /\ lastOp' = [NoOp EXCEPT !.cmd = "tick"]
    /\ UNCHANGED <<clock, playerData, online, sessionStart, modVars, dataVars>>
    /\ UNCHANGED sweepAt

\* ServerPlayConnectionEvents.JOIN for the player with this uuid.
Join(uuid, now) ==
    /\ Busy(tickCounter)
    /\ uuid \notin online
    /\ Len(scheduledTasks) + 2 <= MaxQueue
    /\ clock' = now
    /\ online' = online \cup {uuid}
    /\ sessionStart' = [sessionStart EXCEPT ![uuid] = now]
    /\ playerData' = MapPut(playerData, uuid,
                            [name |-> NameOf(uuid), joinedAt |-> now])
    /\ scheduledTasks' =
          scheduleTask(
              scheduleTask(scheduledTasks, tickCounter, 20,
                           JoinParticles(uuid), seqno),
              tickCounter, 100, JoinTip(uuid), seqno + 1)
    /\ seqno' = seqno + 2
    /\ tickLog' = NoTick
    /\ lastOp' = [NoOp EXCEPT !.cmd = "join", !.who = uuid]
    /\ UNCHANGED <<tickCounter, modVars, dataVars>>
    /\ UNCHANGED sweepAt

\* Mutant of Disconnect: leaving cancels the tasks scheduled at the join.
DisconnectCancels(uuid, now) ==
    /\ Busy(tickCounter)
    /\ uuid \in online
    /\ clock' = now
    /\ online' = online \ {uuid}
    /\ sessionStart' = [sessionStart EXCEPT ![uuid] = 0]
    /\ playerData' = MapRemove(playerData, uuid)
    /\ scheduledTasks' = SelectSeq(scheduledTasks,
                                   LAMBDA t : t.action.who # uuid)
    /\ lastOp' = [NoOp EXCEPT !.cmd = "disconnect", !.who = uuid]
    /\ tickLog' = NoTick
    /\ UNCHANGED <<tickCounter, seqno, modVars, dataVars>>
    /\ UNCHANGED sweepAt

\* Mutant of Disconnect: the entry of the leaving player is not removed.
DisconnectKeepsEntry(uuid, now) ==
    /\ Busy(tickCounter)
    /\ uuid \in online
    /\ clock' = now
    /\ online' = online \ {uuid}
    /\ sessionStart' = [sessionStart EXCEPT ![uuid] = 0]
    /\ lastOp' = [NoOp EXCEPT !.cmd = "disconnect", !.who = uuid,
                     !.hadRecord = uuid \in DOMAIN playerData,
                     !.reply = IF uuid \in DOMAIN playerData
                               THEN "left-after" ELSE "",
                     !.num = IF uuid \in DOMAIN playerData
                             THEN (now - playerData[uuid].joinedAt) \div 60000
                             ELSE 0]
    /\ tickLog' = NoTick
    /\ UNCHANGED <<tickCounter, scheduledTasks, playerData, seqno, modVars, dataVars>>
    /\ UNCHANGED sweepAt

\* Mutant of Disconnect: leaving also forgets the player's daily claim.
DisconnectForgetsClaim(uuid, now) ==
    /\ Busy(tickCounter)
    /\ uuid \in online
    /\ clock' = now
    /\ online' = online \ {uuid}
    /\ sessionStart' = [sessionStart EXCEPT ![uuid] = 0]
    /\ playerData' = MapRemove(playerData, uuid)
    /\ dailyClaims' = MapRemove(dailyClaims, uuid)
    /\ lastOp' = [NoOp EXCEPT !.cmd = "disconnect", !.who = uuid,
                     !.hadRecord = uuid \in DOMAIN playerData,
                     !.reply = IF uuid \in DOMAIN playerData
                               THEN "left-after" ELSE "",
                     !.num = IF uuid \in DOMAIN playerData
                             THEN (now - playerData[uuid].joinedAt) \div 60000
                             ELSE 0]
    /\ tickLog' = NoTick
    /\ UNCHANGED <<tickCounter, scheduledTasks, seqno, sweepAt, modVars>>
    /\ UNCHANGED <<homeData, warpData, lostAtInit, grantLog>>

\* ServerPlayConnectionEvents.DISCONNECT for the player with this uuid.
Disconnect(uuid, now) ==
    /\ Busy(tickCounter)
    /\ uuid \in online
    /\ clock' = now
    /\ online' = online \ {uuid}
    /\ sessionStart' = [sessionStart EXCEPT ![uuid] = 0]
    /\ playerData' = MapRemove(playerData, uuid)
    /\ lastOp' = [NoOp EXCEPT !.cmd = "disconnect", !.who = uuid,
                     !.hadRecord = uuid \in DOMAIN playerData,
                     !.reply = IF uuid \in DOMAIN playerData
                               THEN "left-after" ELSE "",
                     !.num = IF uuid \in DOMAIN playerData
                             THEN (now - playerData[uuid].joinedAt) \div 60000
                             ELSE 0]
    /\ tickLog' = NoTick
    /\ UNCHANGED <<tickCounter, scheduledTasks, seqno, modVars, dataVars>>
    /\ UNCHANGED sweepAt

\* /js playtime run by the player with this uuid (isPlayer) or the console.
JsPlaytime(uuid, isPlayer, now) ==
    /\ Busy(tickCounter)
    /\ isPlayer => uuid \in online
    /\ clock' = now
    /\ tickLog' = NoTick
    /\ lastOp' =
          IF ~isPlayer
          THEN [NoOp EXCEPT !.cmd = "playtime", !.reply = "players-only"]
          ELSE IF uuid \in DOMAIN playerData
          THEN [NoOp EXCEPT !.cmd = "playtime", !.who = uuid,
                            !.isPlayer = TRUE, !.reply = "online-for",
                            !.num = now - playerData[uuid].joinedAt]
          ELSE [NoOp EXCEPT !.cmd = "playtime", !.who = uuid,
                            !.isPlayer = TRUE]
    /\ UNCHANGED <<tickCounter, scheduledTasks, playerData, online, sessionStart, seqno,
                   modVars, dataVars>>
    /\ UNCHANGED sweepAt

\* A call scheduleTask(delayTicks, action) made by mod code between ticks.
ScheduleCall(delayTicks, action) ==
    /\ sweepAt = 0
    /\ Busy(tickCounter)
    /\ Len(scheduledTasks) < MaxQueue
    /\ scheduledTasks' = scheduleTask(scheduledTasks, tickCounter, delayTicks,
                                      action, seqno)
    /\ seqno' = seqno + 1
    /\ tickLog' = NoTick
    /\ lastOp' = [NoOp EXCEPT !.cmd = "schedule"]
    /\ UNCHANGED <<clock, tickCounter, playerData, online, sessionStart, modVars, dataVars>>
    /\ UNCHANGED sweepAt

\* Wall-clock readings offered under SpecSched, where time is kept still:
\* the tick handler never reads the clock.
SchedTimes(t) == {t}

SchedNext ==
    \/ Tick
    \/ \E uuid \in Players, now \in SchedTimes(clock) : Join(uuid, now)
    \/ \E uuid \in Players, now \in SchedTimes(clock) : Disconnect(uuid, now)
    \/ \E uuid \in Players, isPlayer \in BOOLEAN, now \in SchedTimes(clock) :
            JsPlaytime(uuid, isPlayer, now)
    \/ \E delayTicks \in CallDelays, action \in CallActions :
            ScheduleCall(delayTicks, action)

\* Wall-clock readings for sessions: the clock never runs backwards.
SessionInstants == {1, 60000, 60001, 125000}
SessionTimes(t) == {x \in SessionInstants : x >= t}

\* Joins, disconnects and /js playtime with the clock running.
SessionNext ==
    \/ Tick
    \/ \E uuid \in Players, now \in SessionTimes(clock) : Join(uuid, now)
    \/ \E uuid \in Players, now \in SessionTimes(clock) : Disconnect(uuid, now)
    \/ \E uuid \in Players, isPlayer \in BOOLEAN, now \in SessionTimes(clock) :
            JsPlaytime(uuid, isPlayer, now)

\* The tick handler taken one statement at a time, for actions that add
\* work to the queue while the sweep is running.  The history of a tick
\* (tickLog) is kept by Tick only, which runs the handler in one step.

\* Ticks followed statement by statement.
LoopTicks == 2

\* History names for entries added at tick tc: the number after the
\* largest in use in the list, and the smallest not in use.
UsedIds(list, tc) ==
    {list[k].id[2] : k \in {j \in 1..Len(list) : list[j].id[1] = tc}}
NextId(list, tc) ==
    IF UsedIds(list, tc) = {} THEN 0
    ELSE 1 + CHOOSE n \in UsedIds(list, tc) :
                \A m \in UsedIds(list, tc) : m <= n
FreeId(list, tc) ==
    CHOOSE n \in 0..Len(list) :
        /\ n \notin UsedIds(list, tc)
        /\ \A m \in 0..(n - 1) : m \in UsedIds(list, tc)

\* onEndTick is entered: tickCounter++; var i = 0;
TickBegin ==
    /\ sweepAt = 0
    /\ tickCounter < LoopTicks
    /\ tickCounter' = tickCounter + 1
    /\ sweepAt' = 1
    /\ seqno' = 0
    /\ tickLog' = NoTick
    /\ lastOp' = [NoOp EXCEPT !.cmd = "tick-begin"]
    /\ UNCHANGED <<clock, scheduledTasks, playerData, online, sessionStart,
                   modVars, dataVars>>

\* One pass through the body of `while (i < scheduledTasks.size())`.
SweepStep ==
    /\ sweepAt >= 1
    /\ sweepAt <= Len(scheduledTasks)
    /\ LET task == scheduledTasks[sweepAt] IN
       IF TaskDue(tickCounter, task)
       THEN LET ran == RunAction(task, scheduledTasks, tickCounter,
                                 FreeId(scheduledTasks, tickCounter))
            IN /\ scheduledTasks' = RemoveAt(ran.tasks, sweepAt)
               /\ UNCHANGED sweepAt
               /\ lastOp' = [NoOp EXCEPT !.cmd = "tick-invoke"]
       ELSE /\ sweepAt' = sweepAt + 1
            /\ UNCHANGED scheduledTasks
            /\ lastOp' = [NoOp EXCEPT !.cmd = "tick-skip"]
    /\ UNCHANGED <<clock, tickCounter, playerData, online, sessionStart, seqno,
                   tickLog, modVars, dataVars>>

\* The while loop is left (i = size), the ambient effect runs if it is its
\* tick and the handler returns.
TickEnd ==
    /\ sweepAt > Len(scheduledTasks)
    /\ sweepAt' = 0
    /\ seqno' = NextId(scheduledTasks, tickCounter)
    /\ tickLog' = [NoTick EXCEPT
                      !.ambientRan = tickCounter % AmbientPeriod = 0,
                      !.ambientFor = IF tickCounter % AmbientPeriod = 0
                                     THEN online ELSE {}]
    /\ lastOp' = [NoOp EXCEPT !.cmd = "tick-end"]
    /\ UNCHANGED <<clock, tickCounter, scheduledTasks, playerData, online,
                   sessionStart, modVars, dataVars>>

LoopNext ==
    \/ TickBegin
    \/ SweepStep
    \/ TickEnd
    \/ \E delayTicks \in {0, 1}, action \in AgainActions \cup {NoopAction} :
            ScheduleCall(delayTicks, action)

(***************************************************************************)
(* Sample mod main.js: /js home, /js warp, /js daily, re-initialisation     *)
(***************************************************************************)
DAILY_COOLDOWN_MS == 5 * 60 * 1000

\* Wall-clock readings offered under SpecData.
Instants ==
    {1, 2, DAILY_COOLDOWN_MS, DAILY_COOLDOWN_MS + 1, 2 * DAILY_COOLDOWN_MS + 1}

DataTimes(t) == {x \in Instants : x >= t}

\* new BlockPos(floor(x), floor(y), floor(z)) of where the player stands
Positions == { [x |-> 10, y |-> 64, z |-> -3], [x |-> 0, y |-> 70, z |-> 0] }

\* Warp names as typed.
WarpArgs == {"spawn", "Spawn"}

\* Mutant of WarpKey: the name is used as typed.
WarpKeyExact(str) == str

\* StringArgumentType.getString(ctx, "name").toLowerCase()
WarpKey(str) == IF str = "Spawn" THEN "spawn" ELSE str

\* player.teleport(world, pos.getX() + 0.5, pos.getY(), pos.getZ() + 0.5, ...)
\* in half blocks, so that the block centre is an integer.
TeleportTarget(pos) == <<2 * pos.x + 1, 2 * pos.y, 2 * pos.z + 1>>

DailyReward ==
    << [itemId |-> "minecraft:emerald", count |-> 3],
       [itemId |-> "minecraft:golden_apple", count |-> 1] >>

NothingLost == [home |-> EmptyMap, warp |-> EmptyMap, daily |-> EmptyMap,
                grants |-> [u \in Players |-> 0]]

\* What a /js data command leaves alone.
DataFrame ==
    /\ lostAtInit' = NothingLost
    /\ UNCHANGED <<modVars, schedVars, grantLog>>

JsReply(cmd, uuid, isPlayer, reply, ret) ==
    [NoOp EXCEPT !.cmd = cmd, !.who = uuid, !.isPlayer = isPlayer,
                 !.reply = reply, !.ret = ret]

\* /js home set
JsHomeSet(uuid, isPlayer, pos) ==
    /\ DataFrame
    /\ UNCHANGED <<clock, warpData, dailyClaims>>
    /\ IF ~isPlayer
       THEN /\ lastOp' = JsReply("js home set", uuid, FALSE, "", 0)
            /\ UNCHANGED homeData
       ELSE /\ homeData' = MapPut(homeData, uuid, pos)
            /\ lastOp' = JsReply("js home set", uuid, TRUE, "home-set", 1)

\* /js home go
JsHomeGo(uuid, isPlayer) ==
    /\ DataFrame
    /\ UNCHANGED <<clock, homeData, warpData, dailyClaims>>
    /\ lastOp' =
          IF ~isPlayer THEN JsReply("js home go", uuid, FALSE, "", 0)
          ELSE IF uuid \notin DOMAIN homeData
          THEN JsReply("js home go", uuid, TRUE, "no-home", 0)
          ELSE [JsReply("js home go", uuid, TRUE, "teleported", 1)
                    EXCEPT !.tp = TeleportTarget(homeData[uuid])]

\* /js home info
JsHomeInfo(uuid, isPlayer) ==
    /\ DataFrame
    /\ UNCHANGED <<clock, homeData, warpData, dailyClaims>>
    /\ lastOp' =
          IF ~isPlayer THEN JsReply("js home info", uuid, FALSE, "", 0)
          ELSE IF uuid \notin DOMAIN homeData
          THEN JsReply("js home info", uuid, TRUE, "no-home", 0)
          ELSE JsReply("js home info", uuid, TRUE, "home-info", 1)

\* /js home clear
JsHomeClear(uuid, isPlayer) ==
    /\ DataFrame
    /\ UNCHANGED <<clock, warpData, dailyClaims>>
    /\ IF ~isPlayer
       THEN /\ lastOp' = JsReply("js home clear", uuid, FALSE, "", 0)
            /\ UNCHANGED homeData
       ELSE /\ homeData' = MapRemove(homeData, uuid)
            /\ lastOp' = JsReply("js home clear", uuid, TRUE, "home-cleared", 1)

\* /js warp set <name>
JsWarpSet(uuid, isPlayer, arg, pos) ==
    /\ DataFrame
    /\ UNCHANGED <<clock, homeData, dailyClaims>>
    /\ IF ~isPlayer
       THEN /\ lastOp' = JsReply("js warp set", uuid, FALSE, "", 0)
            /\ UNCHANGED warpData
       ELSE /\ warpData' = MapPut(warpData, WarpKey(arg), pos)
            /\ lastOp' = JsReply("js warp set", uuid, TRUE, "warp-set", 1)

\* /js warp go <name>
JsWarpGo(uuid, isPlayer, arg) ==
    /\ DataFrame
    /\ UNCHANGED <<clock, homeData, warpData, dailyClaims>>
    /\ lastOp' =
          IF ~isPlayer THEN JsReply("js warp go", uuid, FALSE, "", 0)
          ELSE IF WarpKey(arg) \notin DOMAIN warpData
          THEN JsReply("js warp go", uuid, TRUE, "unknown-warp", 0)
          ELSE [JsReply("js warp go", uuid, TRUE, "warped", 1)
                    EXCEPT !.tp = TeleportTarget(warpData[WarpKey(arg)])]

\* /js warp list (any sender)
JsWarpList ==
    /\ DataFrame
    /\ UNCHANGED <<clock, homeData, warpData, dailyClaims>>
    /\ lastOp' = IF warpData = EmptyMap
                 THEN JsReply("js warp list", "", FALSE, "no-warps", 1)
                 ELSE JsReply("js warp list", "", FALSE, "warps", 1)

\* /js warp remove <name> (any sender)
JsWarpRemove(arg) ==
    /\ DataFrame
    /\ UNCHANGED <<clock, homeData, dailyClaims>>
    /\ IF WarpKey(arg) \notin DOMAIN warpData
       THEN /\ lastOp' = JsReply("js warp remove", "", FALSE, "unknown-warp", 0)
            /\ UNCHANGED warpData
       ELSE /\ warpData' = MapRemove(warpData, WarpKey(arg))
            /\ lastOp' = JsReply("js warp remove", "", FALSE, "warp-removed", 1)

\* Mutant of DailyOnCooldown: a claim exactly one cooldown after the last
\* one is still refused.
DailyOnCooldownInclusive(claims, uuid, now) ==
    /\ uuid \in DOMAIN claims
    /\ now - claims[uuid] <= DAILY_COOLDOWN_MS

\* if (last !== null) { ... if (elapsed < DAILY_COOLDOWN_MS) ... }
DailyOnCooldown(claims, uuid, now) ==
    /\ uuid \in DOMAIN claims
    /\ now - claims[uuid] < DAILY_COOLDOWN_MS

\* /js daily
JsDaily(uuid, isPlayer, now) ==
    /\ lostAtInit' = NothingLost
    /\ UNCHANGED <<modVars, schedVars>>
    /\ UNCHANGED <<homeData, warpData>>
    /\ IF ~isPlayer
       THEN /\ lastOp' = JsReply("js daily", uuid, FALSE, "", 0)
            /\ UNCHANGED <<clock, dailyClaims, grantLog>>
       ELSE /\ clock' = now
            /\ IF DailyOnCooldown(dailyClaims, uuid, now)
               THEN /\ lastOp' = [JsReply("js daily", uuid, TRUE, "cooldown", 0)
                                    EXCEPT !.num = DAILY_COOLDOWN_MS
                                                    - (now - dailyClaims[uuid])]
                    /\ UNCHANGED <<dailyClaims, grantLog>>
               ELSE /\ dailyClaims' = MapPut(dailyClaims, uuid, now)
                    /\ grantLog' = [grantLog EXCEPT ![uuid] = now]
                    /\ lastOp' = [JsReply("js daily", uuid, TRUE, "claimed", 1)
                                    EXCEPT !.items = DailyReward,
                                           !.num = grantLog[uuid]]

\* Mutant of Restart: the three maps are loaded back from host storage.
RestartKeepsData(now) ==
    /\ clock' = now
    /\ tickCounter' = 0
    /\ scheduledTasks' = <<>>
    /\ playerData' = EmptyMap
    /\ online' = {}
    /\ sessionStart' = [u \in Players |-> 0]
    /\ seqno' = 0
    /\ tickLog' = NoTick
    /\ UNCHANGED <<homeData, warpData, dailyClaims>>
    /\ lostAtInit' = [home |-> homeData, warp |-> warpData,
                      daily |-> dailyClaims, grants |-> grantLog]
    /\ grantLog' = [u \in Players |-> 0]
    /\ lastOp' = [NoOp EXCEPT !.cmd = "restart"]
    /\ UNCHANGED <<sweepAt, modVars>>

\* The server restarts and main.js is evaluated again: every `var` of the
\* MOD STATE section is initialised anew; nothing is read from storage.
Restart(now) ==
    /\ clock' = now
    /\ tickCounter' = 0
    /\ scheduledTasks' = <<>>
    /\ playerData' = EmptyMap
    /\ online' = {}
    /\ sessionStart' = [u \in Players |-> 0]
    /\ seqno' = 0
    /\ tickLog' = NoTick
    /\ homeData' = EmptyMap
    /\ warpData' = EmptyMap
    /\ dailyClaims' = EmptyMap
    /\ lostAtInit' = [home |-> homeData, warp |-> warpData,
                      daily |-> dailyClaims, grants |-> grantLog]
    /\ grantLog' = [u \in Players |-> 0]
    /\ lastOp' = [NoOp EXCEPT !.cmd = "restart"]
    /\ UNCHANGED <<sweepAt, modVars>>

\* Wall-clock readings for a player who leaves and comes back: within the
\* cooldown of /js daily and after it.
RejoinTimes(t) == {x \in {1, 2, DAILY_COOLDOWN_MS + 1} : x >= t}

\* Joins and disconnects together with the commands of connected players
\* that write homeData, warpData and dailyClaims.
RejoinNext ==
    \/ Tick
    \/ \E uuid \in Players, now \in RejoinTimes(clock) : Join(uuid, now)
    \/ \E uuid \in Players, now \in RejoinTimes(clock) : Disconnect(uuid, now)
    \/ \E uuid \in online, now \in RejoinTimes(clock) :
            Busy(tickCounter) /\ JsDaily(uuid, TRUE, now)
    \/ \E uuid \in online, pos \in Positions :
            Busy(tickCounter) /\ JsHomeSet(uuid, TRUE, pos)
    \/ \E uuid \in online, arg \in WarpArgs, pos \in Positions :
            Busy(tickCounter) /\ JsWarpSet(uuid, TRUE, arg, pos)

DataNext ==
    \/ \E uuid \in Players, isPlayer \in BOOLEAN, pos \in Positions :
            JsHomeSet(uuid, isPlayer, pos)
    \/ \E uuid \in Players, isPlayer \in BOOLEAN : JsHomeGo(uuid, isPlayer)
    \/ \E uuid \in Players, isPlayer \in BOOLEAN : JsHomeInfo(uuid, isPlayer)
    \/ \E uuid \in Players, isPlayer \in BOOLEAN : JsHomeClear(uuid, isPlayer)
    \/ \E uuid \in Players, isPlayer \in BOOLEAN, arg \in WarpArgs,
          pos \in Positions : JsWarpSet(uuid, isPlayer, arg, pos)
    \/ \E uuid \in Players, isPlayer \in BOOLEAN, arg \in WarpArgs :
            JsWarpGo(uuid, isPlayer, arg)
    \/ JsWarpList
    \/ \E arg \in WarpArgs : JsWarpRemove(arg)
    \/ \E uuid \in Players, isPlayer \in BOOLEAN, now \in DataTimes(clock) :
            JsDaily(uuid, isPlayer, now)
    \/ \E now \in DataTimes(clock) : Restart(now)

Init ==
    /\ KitInit
    /\ TrackInit
    /\ HomeInit
    /\ LoadInit
    /\ WebInit
    /\ SampleInit

KitNext ==
    \/ \E p \in Names, isPlayer \in BOOLEAN, now \in clock..MaxClock :
            Kit(p, isPlayer, now)
    \/ \E targetPlayer \in Names : KitReset(targetPlayer)
    \/ KitInitialize

SpecKit == Init /\ [][KitNext]_vars

\* spawn-kit.js on a host whose calls can fail.
KitHostNext ==
    \/ \E p \in Names, isPlayer \in BOOLEAN, now \in clock..MaxClock :
            Kit(p, isPlayer, now)
    \/ \E targetPlayer \in Names : KitReset(targetPlayer)
    \* The host calls of a granting /kit, in the order the handler makes
    \* them: one giveItem per item, saveData, getPlayer, spawnParticle,
    \* playSound.  Call number `at` throws, or getPlayer returns null and
    \* `playerInfo.get` throws TypeError.
    \/ \E p \in Names, now \in clock..MaxClock :
         \E failure \in [at : 1..(Len(starterKit) + 4), how : {"throws"}] \cup
                        [at : {Len(starterKit) + 2}, how : {"null"}] :
            KitHostFailure(p, now, failure)

SpecKitHost == Init /\ [][KitHostNext]_vars

SpecTracker == Init /\ [][TrackNext]_vars

SpecRecords == Init /\ [][RecordNext]_vars

SpecBoard == Init /\ [][BoardNext]_vars

SpecHome == Init /\ [][HomeNext]_vars

SpecLoad == Init /\ [][LoadNext]_vars

SpecWeb == Init /\ [][WebNext]_vars

SpecInit == Init /\ [][InitNext]_vars

SpecConfig == Init /\ [][ConfigNext]_vars

SpecSched == Init /\ [][SchedNext]_vars

SpecSession == Init /\ [][SessionNext]_vars

SpecRejoin == Init /\ [][RejoinNext]_vars

\* The host runs a handler it has entered until the handler returns.
SpecLoop == Init /\ [][LoopNext]_vars /\ WF_vars(SweepStep) /\ WF_vars(TickEnd)

SpecData == Init /\ [][DataNext]_vars

(***************************************************************************)
(* Claims: v1.0.0 example mods                                             *)
(***************************************************************************)

\* C1: for every player p, the starter kit is given to p in at most one /kit
\* invocation between two consecutive successful /kitreset p (or between
\* initialisation and the first such reset).
C1_KitAtMostOncePerReset == \A p \in Names : grants[p] <= 1

\* C1 witness: p holds the kit and p's further /kit has just been refused.
C1_Witness ==
    /\ lastOp.cmd = "kit" /\ lastOp.isPlayer
    /\ lastOp.reply = "already-received"
    /\ lastOp.hadRecord
    /\ grants[lastOp.who] = 1

\* C2: for every player name, a player sender who has not yet received the
\* kit and runs /kit is given all seven starter-kit stacks and is then
\* recorded in `received`.
C2_KitGivenToEveryNewPlayer ==
    (lastOp.cmd = "kit" /\ lastOp.isPlayer /\ ~lastOp.wasClaimed)
        => (lastOp.items = starterKit /\ lastOp.who \in DOMAIN received)

\* C3: after /kitreset p succeeded for a recorded p, p's next /kit gives the
\* full kit again; /kitreset on a player with no record only replies "hasn't
\* received a kit yet", leaves `received` unchanged and does not call saveData.
C3_KitResetContract ==
    /\ (lastOp.cmd = "kit" /\ lastOp.isPlayer /\ lastOp.afterReset)
            => lastOp.items = starterKit
    /\ (lastOp.cmd = "kitreset" /\ ~lastOp.hadRecord)
            => (lastOp.reply = "no-kit-yet" /\ ~lastOp.changed /\ ~lastOp.saved)

\* C8: in the three v1.0.0 mods the value last saved under the mod's key
\* equals the in-memory mapping after every completed handler (what a reload
\* of the saved JSON would give: its own properties on a plain prototype),
\* and a handler that changed nothing did not call saveData.
C8_SavedMirrorsMemory ==
    /\ kitStore = JsonOf(received)
    /\ trackStore = JsonOf(activity)
    /\ homeStore = JsonOf(homes) /\ homesProto = <<>>
    /\ ~lastOp.changed => ~lastOp.saved

\* C10: starting from empty stored data, a key exists in a mapping if and
\* only if its event occurred: homes has p iff p ran /home set and no
\* /home delete since; activity has p iff a command event with playerName p
\* was delivered; received has p iff p claimed /kit and no /kitreset p
\* succeeded since.
C10_KeyIffEvent ==
    \A p \in Names :
        /\ (p \in DOMAIN homes) <=> homeSet[p]
        /\ (p \in DOMAIN activity) <=> seen[p]
        /\ (p \in DOMAIN received) <=> (claimed[p] = "yes")

(***************************************************************************)
(* Claims: sample mod scheduling                                           *)
(***************************************************************************)
Ids(list) == {list[k].id : k \in 1..Len(list)}

InvokedIds == {tickLog.invoked[k].task.id : k \in 1..Len(tickLog.invoked)}

\* C4: when a tick handler has finished, every entry that was in
\* scheduledTasks with tickTarget <= the incremented tickCounter was invoked
\* and is gone, no entry with tickTarget <= tickCounter remains, and the
\* entries with tickTarget > tickCounter were not invoked and are still there.
C4_SweepRunsExactlyTheDue ==
    lastOp.cmd = "tick" =>
        /\ \A k \in 1..Len(tickLog.before) :
              LET t == tickLog.before[k] IN
              IF t.tickTarget <= tickCounter
              THEN t.id \in InvokedIds /\ t.id \notin Ids(scheduledTasks)
              ELSE /\ t.id \notin InvokedIds
                   /\ \E j \in 1..Len(scheduledTasks) : scheduledTasks[j] = t
        /\ \A j \in 1..Len(scheduledTasks) :
              scheduledTasks[j].tickTarget > tickCounter

\* C4 witness: a tick that found one due and one not yet due entry.
C4_Witness ==
    /\ lastOp.cmd = "tick"
    /\ \E k \in 1..Len(tickLog.before) :
            tickLog.before[k].tickTarget <= tickCounter
    /\ \E k \in 1..Len(tickLog.before) :
            tickLog.before[k].tickTarget > tickCounter

\* C5: a task registered by scheduleTask(d, action) with d >= 1 while
\* tickCounter = t is invoked exactly once, in the tick in which tickCounter
\* becomes t + d: no invocation happens at another tick, no pending task is
\* past its tick, and no tick invokes a task twice -- for calls made between
\* ticks and for calls made by an action during a sweep.
C5_InvokedExactlyAtDueTick ==
    /\ \A j \in 1..Len(scheduledTasks) :
          LET t == scheduledTasks[j] IN
          t.delay >= 1 => tickCounter < t.at + t.delay
    /\ \A k \in 1..Len(tickLog.invoked) :
          LET t == tickLog.invoked[k].task IN
          t.delay >= 1 => tickCounter = t.at + t.delay
    /\ \A k, m \in 1..Len(tickLog.invoked) :
          tickLog.invoked[k].task.id = tickLog.invoked[m].task.id => k = m

\* C5 witness: a task scheduled with delay 1 by an action during a sweep has
\* just been invoked.
C5_Witness ==
    /\ lastOp.cmd = "tick"
    /\ \E k \in 1..Len(tickLog.invoked) :
          LET t == tickLog.invoked[k].task IN
          /\ t.action.kind = "noop" /\ t.delay = 1
          /\ t.at + 1 = tickCounter

\* C6: when a due task's action throws, the exception is logged, the task is
\* removed (so no later tick can invoke it), every other task due in that
\* tick is still invoked, and the rest of the handler runs: tickCounter has
\* advanced and the ambient effect ran exactly if tickCounter is a multiple
\* of 1200.
C6_ThrowingTaskIsDropped ==
    lastOp.cmd = "tick" =>
        /\ \A k \in 1..Len(tickLog.invoked) :
              tickLog.invoked[k].threw =>
                  tickLog.invoked[k].task.id \notin Ids(scheduledTasks)
        /\ tickLog.warned =
              Cardinality({k \in 1..Len(tickLog.invoked) :
                              tickLog.invoked[k].task.action.kind = "throw"})
        /\ \A k \in 1..Len(tickLog.before) :
              tickLog.before[k].tickTarget <= tickCounter
                  => tickLog.before[k].id \in InvokedIds
        /\ tickLog.ambientRan = (tickCounter % 1200 = 0)
        /\ tickLog.ambientRan => tickLog.ambientFor = online

\* C6 witness: at tick 1200 one action threw, another due task was invoked
\* after it, and the ambient effect ran.
C6_Witness ==
    /\ lastOp.cmd = "tick" /\ tickCounter = 1200 /\ tickLog.ambientRan
    /\ \E k, m \in 1..Len(tickLog.invoked) :
          /\ k < m
          /\ tickLog.invoked[k].threw
          /\ ~tickLog.invoked[m].threw

\* C7: an entry leaves scheduledTasks only in a tick handler that invoked
\* it; DISCONNECT and commands leave scheduledTasks unchanged.
C7_OnlySweepRemoves ==
    [][ /\ \A k \in 1..Len(scheduledTasks) :
              scheduledTasks[k].id \notin Ids(scheduledTasks')
                  => /\ lastOp'.cmd = "tick"
                     /\ \E m \in 1..Len(tickLog'.invoked) :
                           tickLog'.invoked[m].task = scheduledTasks[k]
        /\ lastOp'.cmd \in {"disconnect", "playtime"}
              => scheduledTasks' = scheduledTasks ]_vars

\* C7 witness: the tip task of a join has just been invoked, 100 ticks after
\* the join, although the player has left.
C7_Witness ==
    /\ lastOp.cmd = "tick"
    /\ \E k \in 1..Len(tickLog.invoked) :
          LET t == tickLog.invoked[k].task IN
          /\ t.action.kind = "tip"
          /\ t.action.who \notin online
          /\ tickCounter = t.at + 100

(***************************************************************************)
(* Claims: sample mod data                                                 *)
(***************************************************************************)

\* C9 (as claimed): homeData, warpData and dailyClaims are written back to
\* host storage on every mutation and loaded at initialisation, so what was
\* recorded before a re-initialisation is still present right after it.
C9_DataSurvivesRestart ==
    lastOp.cmd = "restart" =>
        /\ homeData = lostAtInit.home
        /\ warpData = lostAtInit.warp
        /\ dailyClaims = lostAtInit.daily

\* C9 (amended): the three maps live in memory only: right after a
\* re-initialisation all three are empty, whatever was recorded before.
C9_DataIsInMemoryOnly ==
    lastOp.cmd = "restart" =>
        /\ homeData = EmptyMap
        /\ warpData = EmptyMap
        /\ dailyClaims = EmptyMap

\* C9 witness: a re-initialisation at which a home, a warp and a daily claim
\* had been recorded.
C9_Witness ==
    /\ lastOp.cmd = "restart"
    /\ lostAtInit.home # EmptyMap
    /\ lostAtInit.warp # EmptyMap
    /\ lostAtInit.daily # EmptyMap

(***************************************************************************)
(* Claims: onInitialize and failed preconditions of the v1.0.0 mods        *)
(***************************************************************************)
\* The last handler ran with its precondition not met.
FailedPrecondition ==
    \/ lastOp.cmd = "kit" /\ (~lastOp.isPlayer \/ lastOp.eventBefore)
    \/ lastOp.cmd = "kitreset" /\ ~lastOp.eventBefore
    \/ lastOp.cmd \in {"home set", "home delete", "home list", "home tp", "home go"}
            /\ ~lastOp.isPlayer
    \/ lastOp.cmd \in {"home delete", "home list", "home tp", "home go"}
            /\ ~lastOp.eventBefore
    \/ lastOp.cmd = "activity" /\ ~lastOp.eventBefore

ErrorReplies ==
    {"players-only", "already-received", "no-kit-yet", "no-home", "no-activity"}

\* C11: whenever api.loadData returned a value that is not a well-formed
\* mapping, onInitialize logged a warning, registered its handlers and left an
\* empty in-memory mapping, and the first mutation afterwards is recorded
\* in that mapping without an exception.
C11_LoadFallsBackToEmpty ==
    (boot.phase # "none" /\ boot.raw \in MalformedRaw) =>
        /\ boot.warned
        /\ boot.registered
        /\ boot.phase = "loaded" => boot.value = JsObject(NoProps)
        /\ boot.phase = "mutated" =>
                /\ ~boot.threw
                /\ boot.value = JsObject([k \in {boot.who} |-> "rec"])

\* C12: a handler whose precondition is not met only replies with an error
\* message: it changes no mapping and calls none of saveData, giveItem,
\* teleportPlayer, spawnParticle, playSound.
C12_FailedPreconditionOnlyReplies ==
    FailedPrecondition =>
        /\ lastOp.reply \in ErrorReplies
        /\ ~lastOp.saved
        /\ ~lastOp.changed
        /\ lastOp.items = <<>>
        /\ lastOp.tp = <<>>
        /\ lastOp.fx = 0

(***************************************************************************)
(* Claims: version.js                                                      *)
(***************************************************************************)

\* C13: after init, the selected option is the option of the version whose
\* page is being viewed; on a path that is no page of the table, it is the
\* first option.
C13_SelectedIsViewedVersion ==
    (webOp.op = "init" /\ ~webOp.threw) =>
        /\ select.options # <<>>
        /\ SelectValue(select) =
                IF viewing.id # "none" THEN viewing.id ELSE select.options[1]

\* C14: choosing version V on a version's page leads the browser to V's
\* page of the same page type under the same site base.
C14_ChangeLeadsToChosenVersion ==
    (webOp.op = "change" /\ webOp.from.id # "none") =>
        LET table == webOp.from.table
            v == FindVersion(table, webOp.chosen)
        IN /\ v # 0
           /\ pathname = webOp.from.base \o table[v].pages[webOp.from.key]

\* C15: once version.js is loaded, calling the global function
\* initThreadJsVersionSelector({...}) works and populates the dropdown.
C15_GlobalInitializerPopulates ==
    (webOp.op = "init" /\ webOp.entry = "initThreadJsVersionSelector") =>
        /\ ~webOp.threw
        /\ select.options # <<>>

(***************************************************************************)
(* Claims: sample mod sessions and daily reward                            *)
(***************************************************************************)

\* C16: the keys of playerData are exactly the connected players, each
\* entry's joinedAt is the time of that player's latest join, and the
\* disconnect log and /js playtime report the time since that join.
C16_PlayerDataIsTheConnectedPlayers ==
    /\ DOMAIN playerData = online
    /\ \A u \in online :
            /\ playerData[u].joinedAt = sessionStart[u]
            /\ playerData[u].name = NameOf(u)
    /\ (lastOp.cmd = "playtime" /\ lastOp.isPlayer) =>
            /\ lastOp.reply = "online-for"
            /\ lastOp.num = clock - sessionStart[lastOp.who]
    /\ lastOp.cmd = "disconnect" =>
            /\ lastOp.reply = "left-after"
            /\ lastOp.num * 60000 <= clock
            /\ sessionStart[lastOp.who] = 0

\* A player leaves after at least a minute while the other one, who
\* joined later, stays connected.
C16_Witness ==
    /\ lastOp.cmd = "disconnect"
    /\ lastOp.num >= 1
    /\ \E u \in online : sessionStart[u] > 1

\* The last step was /js daily run by a player; it granted the reward.
DailyStep == lastOp'.cmd = "js daily" /\ lastOp'.isPlayer
DailyGranted == lastOp'.reply = "claimed"

\* What a /js daily step run by player u at time now must do.
DailyDecision(u, now) ==
    IF u \notin DOMAIN dailyClaims \/ now - dailyClaims[u] >= DAILY_COOLDOWN_MS
    THEN /\ DailyGranted
         /\ dailyClaims' = MapPut(dailyClaims, u, now)
         /\ lastOp'.items = DailyReward
         /\ lastOp'.ret = 1
    ELSE /\ ~DailyGranted
         /\ dailyClaims' = dailyClaims
         /\ lastOp'.items = <<>>
         /\ lastOp'.ret = 0

\* C17: /js daily grants the reward and records the time exactly when the
\* player has no recorded claim or the cooldown has elapsed, otherwise it
\* changes nothing and returns 0; and any two grants to the same player are
\* at least DAILY_COOLDOWN_MS apart, whether the earlier grant was made since
\* the mod was initialised or before that.
C17_DailyCooldown ==
    [][DailyStep =>
        LET u == lastOp'.who
            earlier == {grantLog[u], lostAtInit.grants[u]} \ {0}
        IN /\ DailyDecision(u, clock')
           /\ DailyGranted =>
                \A t \in earlier : clock' - t >= DAILY_COOLDOWN_MS]_vars

\* C17 (amended): the same decision rule; two grants to the same player
\* with no re-initialisation of the mod between them are at least
\* DAILY_COOLDOWN_MS apart.
C17_DailyCooldownWithinOneRun ==
    [][DailyStep =>
        LET u == lastOp'.who
        IN /\ DailyDecision(u, clock')
           /\ (DailyGranted /\ grantLog[u] # 0) =>
                clock' - grantLog[u] >= DAILY_COOLDOWN_MS]_vars

\* C17 witness: a second grant to a player since the mod was initialised,
\* one cooldown or more after the first.
C17_Witness ==
    /\ lastOp.cmd = "js daily"
    /\ lastOp.reply = "claimed"
    /\ lastOp.num > 0
    /\ clock - lastOp.num >= DAILY_COOLDOWN_MS

(***************************************************************************)
(* Claims: player-tracker counts and leaderboard, teleport-home            *)
(***************************************************************************)

\* C18: for every name p that occurred in a command event, activity[p]
\* exists, its commandCount is the number of events delivered for p and its
\* lastCommand is the command of the latest of them.
C18_CountsMatchEvents ==
    \A p \in Names :
        events[p].count > 0 =>
            /\ p \in DOMAIN activity
            /\ activity[p].commandCount = events[p].count
            /\ activity[p].lastCommand = events[p].last

\* C19: /leaderboard lists exactly min(5, tracked players) players, each
\* with its own commandCount, no player twice, in non-increasing order of
\* count, none of them with fewer commands than an unlisted player, and it
\* neither changes `activity` nor saves.
C19_LeaderboardTopFive ==
    lastOp.cmd = "leaderboard" =>
        LET lines == lastOp.items
            tracked == DOMAIN activity
            listed == {lines[i].name : i \in 1..Len(lines)}
        IN /\ lastOp.reply = "most-active"
           /\ Len(lines) = IF Cardinality(tracked) < 5
                           THEN Cardinality(tracked) ELSE 5
           /\ Cardinality(listed) = Len(lines)
           /\ \A i \in 1..Len(lines) :
                /\ lines[i].name \in tracked
                /\ lines[i].count = activity[lines[i].name].commandCount
           /\ \A i \in 1..(Len(lines) - 1) : lines[i].count >= lines[i + 1].count
           /\ \A i \in 1..Len(lines) : \A q \in tracked \ listed :
                lines[i].count >= activity[q].commandCount
           /\ ~lastOp.saved
           /\ ~lastOp.changed

\* The dimension a teleportPlayer request names.
RequestDimension(tp) == IF Len(tp) >= 4 THEN tp[4] ELSE "unspecified"

\* C20: /home with no action, run by a player whose latest /home set was
\* at (x, y, z, dimension), asks the host to teleport the player to that
\* x, y, z in that dimension.
C20_HomeTeleportsToSavedPlace ==
    (lastOp.reply = "teleported" /\ homeAt[lastOp.who] # <<>>) =>
        LET saved == homeAt[lastOp.who][1]
        IN /\ Len(lastOp.tp) >= 3
           /\ lastOp.tp[1] = saved.x
           /\ lastOp.tp[2] = saved.y
           /\ lastOp.tp[3] = saved.z
           /\ RequestDimension(lastOp.tp) = saved.dimension

(***************************************************************************)
(* Claims: warps of the sample mod                                         *)
(***************************************************************************)
\* Two warp names are the same name when they differ in letter case only.
SameIgnoringCase(a, b) == a = b \/ {a, b} = {"spawn", "Spawn"}

\* The stored warps whose name is n, ignoring case.
WarpsNamed(map, n) == {k \in DOMAIN map : SameIgnoringCase(k, n)}

\* Every name of WarpArgs is the name "spawn" ignoring case, so a step of
\* /js warp go or /js warp remove is about the warp "spawn" whatever the
\* sender typed.
WarpGoStep == lastOp'.cmd = "js warp go" /\ lastOp'.isPlayer
WarpRemoveStep == lastOp'.cmd = "js warp remove"
WarpSetStep == lastOp'.cmd = "js warp set" /\ lastOp'.isPlayer

\* What the steps of /js warp set, go and remove must do to the warp n.
WarpContract(n) ==
    /\ WarpSetStep =>
          /\ WarpsNamed(warpData', n) # {}
          /\ lastOp'.ret = 1
    /\ WarpGoStep =>
          IF WarpsNamed(warpData, n) # {}
          THEN /\ \E k \in WarpsNamed(warpData, n) :
                        lastOp'.tp = <<2 * warpData[k].x + 1, 2 * warpData[k].y,
                                       2 * warpData[k].z + 1>>
               /\ lastOp'.ret = 1
               /\ warpData' = warpData
          ELSE /\ lastOp'.reply = "unknown-warp"
               /\ lastOp'.tp = <<>>
               /\ lastOp'.ret = 0
               /\ warpData' = warpData
    /\ WarpRemoveStep =>
          IF WarpsNamed(warpData, n) # {}
          THEN /\ WarpsNamed(warpData', n) = {}
               /\ lastOp'.ret = 1
          ELSE /\ lastOp'.reply = "unknown-warp"
               /\ lastOp'.ret = 0
               /\ warpData' = warpData

\* C21 (as claimed): warps are global and case-insensitive: once a player
\* has set the warp n, every player's /js warp go of that name (in any
\* letter case) teleports to the centre of the stored block, and the warp
\* stays, with the position of the latest set, until a /js warp remove of
\* that name; with no such warp, go and remove fail with "Unknown warp",
\* return 0 and leave warpData unchanged.
C21_WarpStaysUntilRemoved ==
    [][/\ WarpContract("spawn")
       /\ (warpData' # warpData) => (WarpSetStep \/ WarpRemoveStep)]_vars

\* C21 (amended): the same, except that the warp also ends when the mod is
\* initialised again, which empties warpData.
C21_WarpStaysUntilRemovedOrRestart ==
    [][/\ WarpContract("spawn")
       /\ (warpData' # warpData) =>
             \/ WarpSetStep
             \/ WarpRemoveStep
             \/ lastOp'.cmd = "restart" /\ warpData' = EmptyMap]_vars

\* C21 witness: a player has warped to the stored warp at block
\* (10, 64, -3) and arrived at its centre (10.5, 64, -2.5), in half blocks.
C21_Witness ==
    /\ lastOp.cmd = "js warp go"
    /\ lastOp.isPlayer
    /\ lastOp.ret = 1
    /\ warpData # EmptyMap
    /\ lastOp.tp = <<21, 128, -5>>

(***************************************************************************)
(* Claims: spawn-kit across re-initialisation                              *)
(***************************************************************************)
KitInitializeStep == lastOp'.cmd = "kit-initialize"
KitStepBy(p) == lastOp'.cmd = "kit" /\ lastOp'.isPlayer /\ lastOp'.who = p

\* C22: kit status persists across re-initialisation: when onInitialize
\* loads the value last saved, every recorded player is still recorded with
\* the original timestamp and nobody else is; so the /kit of a player who
\* claimed is refused, before and after a re-initialisation, until a
\* /kitreset of that player, and the /kit of a player whose record was
\* reset is granted again, also when the mod was re-initialised in between.
C22_KitStatusSurvivesInitialize ==
    [][/\ KitInitializeStep => received' = received /\ kitStore' = kitStore
       /\ \A p \in Names :
            /\ (KitStepBy(p) /\ claimed[p] = "yes") =>
                    /\ lastOp'.reply = "already-received"
                    /\ lastOp'.items = <<>>
                    /\ received' = received
            /\ (KitStepBy(p) /\ claimed[p] = "reset") =>
                    /\ lastOp'.reply = "kit-received"
                    /\ lastOp'.items = starterKit
            /\ (claimed[p] = "yes" /\ claimed'[p] = "yes") =>
                    /\ p \in DOMAIN received /\ p \in DOMAIN received'
                    /\ received'[p] = received[p]]_vars

\* C22 witness: a player who claimed the kit before the mod was initialised
\* again has just been refused, the record still bearing the time of the
\* claim (the clock has moved on since).
C22_Witness ==
    /\ lastOp.cmd = "kit"
    /\ lastOp.reply = "already-received"
    /\ lastOp.wasClaimed
    /\ kitReloaded[lastOp.who]
    /\ received[lastOp.who] < clock

(***************************************************************************)
(* Claims: spawn-kit and host failures                                     *)
(***************************************************************************)
\* C23: /kit is all-or-nothing, also when a host call fails part-way: after
\* every /kit invocation either all seven stacks were given and the claim
\* is recorded in memory and in storage, or no stack was given and nothing
\* was recorded.
C23_KitAllOrNothing ==
    (lastOp.cmd = "kit" /\ lastOp.isPlayer) =>
        LET p == lastOp.who
        IN \/ /\ lastOp.items = starterKit
              /\ p \in DOMAIN received
              /\ p \in DOMAIN kitStore
              /\ kitStore[p] = received[p]
           \/ /\ lastOp.items = <<>>
              /\ ~lastOp.changed
              /\ ~lastOp.saved

(***************************************************************************)
(* Claims: per-player isolation                                            *)
(***************************************************************************)
\* Names of players whose entry is looked at; "dimension" and "pitch" are
\* player names like any other.
EntryNames == Names \cup {"dimension", "pitch"}

\* The entry of player q in each per-player mapping, as the handlers read it.
KitEntry(rec, q) ==
    IF q \in DOMAIN rec THEN <<rec[q]>> ELSE <<>>
MapEntry(map, u) ==
    IF u \in DOMAIN map THEN <<map[u]>> ELSE <<>>

\* C24: a command issued by player p on a per-player mapping leaves every
\* other player's entry unchanged: /kit on received, /home set and /home
\* delete on homes, /js home set and clear on homeData, /js daily on
\* dailyClaims; /kitreset changes the entry of the named target only.
C24_PerPlayerIsolation ==
    [][/\ lastOp'.cmd \in {"kit", "kitreset"} =>
            \A q \in EntryNames \ {lastOp'.who} :
                /\ KitEntry(received', q) = KitEntry(received, q)
                /\ JsTruthyNum(received', q) = JsTruthyNum(received, q)
       /\ lastOp'.cmd \in {"home set", "home delete"} =>
            \A q \in EntryNames \ {lastOp'.who} :
                HomeLookup(homes', homesProto', q)
                    = HomeLookup(homes, homesProto, q)
       /\ lastOp'.cmd \in {"js home set", "js home clear"} =>
            \A u \in Players \ {lastOp'.who} :
                MapEntry(homeData', u) = MapEntry(homeData, u)
       /\ lastOp'.cmd = "js daily" =>
            \A u \in Players \ {lastOp'.who} :
                MapEntry(dailyClaims', u) = MapEntry(dailyClaims, u)]_vars

(***************************************************************************)
(* Claims: order and termination of the tick sweep                         *)
(***************************************************************************)
\* Entry a was added to scheduledTasks before entry b: at an earlier tick,
\* or earlier at the same tick.
AddedBefore(a, b) ==
    a.id[1] < b.id[1] \/ (a.id[1] = b.id[1] /\ a.id[2] < b.id[2])

\* The entries of a list that are, or are not, among those of another.
Kept(list, from) == SelectSeq(list, LAMBDA t : t.id \in Ids(from))
InvokedTasks == [k \in 1..Len(tickLog.invoked) |-> tickLog.invoked[k].task]

\* C25: within one tick the due tasks are invoked in the order in which
\* they were added to scheduledTasks, whatever their tickTarget: the due
\* entries the tick found are invoked in list order, entries added during
\* the sweep after them; and the entries that stay are in the order they
\* had before the tick.
C25_SweepKeepsListOrder ==
    lastOp.cmd = "tick" =>
        /\ \A j, k \in 1..Len(tickLog.invoked) :
              j < k => AddedBefore(tickLog.invoked[j].task,
                                   tickLog.invoked[k].task)
        /\ Kept(InvokedTasks, tickLog.before) =
              SelectSeq(tickLog.before, LAMBDA t : TaskDue(tickCounter, t))
        /\ Kept(scheduledTasks, tickLog.before) =
              SelectSeq(tickLog.before, LAMBDA t : ~TaskDue(tickCounter, t))
        /\ \A j, k \in 1..Len(scheduledTasks) :
              j < k => AddedBefore(scheduledTasks[j], scheduledTasks[k])

\* C25 witness: a tick invoked three tasks; the first invoked has a later
\* tickTarget than the second, and the third was added during the sweep.
C25_Witness ==
    /\ lastOp.cmd = "tick"
    /\ Len(tickLog.invoked) >= 3
    /\ tickLog.invoked[1].task.tickTarget > tickLog.invoked[2].task.tickTarget
    /\ tickLog.invoked[3].task.id \notin Ids(tickLog.before)

\* C26: every tick handler finishes: once entered, it returns after
\* finitely many action invocations, whatever the queue holds and whatever
\* the actions do, also when they call scheduleTask with a delay of 0 or
\* less during the sweep.
C26_EveryTickFinishes == (sweepAt # 0) ~> (sweepAt = 0)

(***************************************************************************)
(* Claims: what a disconnect leaves alone                                  *)
(***************************************************************************)
\* C27: DISCONNECT removes the leaving player's playerData entry and leaves
\* dailyClaims, homeData and warpData unchanged (as does JOIN), and /js daily
\* decides by dailyClaims alone; so a player who claimed, left and rejoined
\* within the cooldown is still refused.
C27_DisconnectKeepsClaims ==
    [][/\ lastOp'.cmd = "disconnect" =>
            /\ lastOp'.who \notin DOMAIN playerData'
            /\ \A u \in Players \ {lastOp'.who} :
                    MapEntry(playerData', u) = MapEntry(playerData, u)
       /\ lastOp'.cmd \in {"disconnect", "join"} =>
            /\ dailyClaims' = dailyClaims
            /\ homeData' = homeData
            /\ warpData' = warpData
       /\ DailyStep => DailyDecision(lastOp'.who, clock')]_vars

\* C27 witness: a player who claimed in an earlier session has been refused
\* in the session that began after the claim, within the cooldown.
C27_Witness ==
    /\ lastOp.cmd = "js daily"
    /\ lastOp.reply = "cooldown"
    /\ lastOp.who \in online
    /\ sessionStart[lastOp.who] > dailyClaims[lastOp.who]
    /\ clock - dailyClaims[lastOp.who] < DAILY_COOLDOWN_MS

(***************************************************************************)
(* Claims: version.js, the exposed table and the argument of init          *)
(***************************************************************************)
\* C28: the version table is read-only to other scripts: whatever was done
\* through window.ThreadJsVersions.config, a later init creates the options
\* and detects the version of the table as written in version.js, and the
\* change listener navigates to the page that table gives.
C28_ConfigIsReadOnly ==
    [][/\ (webOp'.op = "init" /\ ~webOp'.threw /\ webOp'.warned = "") =>
            LET r == InitSelector(viewing.table, viewing.key, pathname)
            IN /\ select'.options = r.options
               /\ select'.selectedIndex = r.selectedIndex
       /\ webOp'.op = "change" =>
            LET found == FindVersion(viewing.table, webOp'.chosen)
            IN pathname' =
                  IF found = 0 \/ ~HasPage(viewing.table[found], viewing.key)
                  THEN pathname
                  ELSE NavigateTo(pathname,
                                  viewing.table[found].pages[viewing.key])]_vars

\* The argument lacks what init needs, or names a <select> that is not there.
BadInitInput(options) ==
    \/ ~options.given
    \/ options.selectId = ""
    \/ options.pageKey = ""
    \/ options.selectId \notin ElementIds

\* C29: init rejects bad input without side effects: with the argument, the
\* selectId or the pageKey missing or empty, or no element of that id, it
\* logs a warning and adds no option, sets no note text, registers no
\* listener and leaves the location alone; a missing or unknown noteId alone
\* does not keep the dropdown from being populated.
C29_InitRejectsBadInput ==
    [][(webOp'.op = "init" /\ ~webOp'.threw) =>
          /\ pathname' = pathname
          /\ IF BadInitInput(webOp'.options)
             THEN /\ webOp'.warned # ""
                  /\ select' = select
             ELSE /\ webOp'.warned = ""
                  /\ select'.options = OptionsOf(viewing.table, 1, viewing.key)
                  /\ select'.options # <<>>
                  /\ select'.listening
                  /\ (webOp'.options.noteId \notin ElementIds) =>
                        select'.note = select.note]_vars

\* C29 witness: init was called with a pageKey but with the id of an
\* element the page does not have; it warned and the <select> is empty and
\* has no listener.
C29_Witness ==
    /\ webOp.op = "init"
    /\ webOp.options.given
    /\ webOp.options.selectId = "noSuchSelect"
    /\ webOp.options.pageKey # ""
    /\ webOp.warned = "element not found"
    /\ select = EmptySelect

(***************************************************************************)
(* Claims: player-tracker records                                          *)
(***************************************************************************)
\* C30: starting from empty data and with a clock that never goes back,
\* every record of `activity` has commandCount >= 1, a lastCommand and a
\* lastActive that are set, and firstSeen <= lastActive; a record stays,
\* its firstSeen never changes, and its commandCount and lastActive never
\* decrease.
C30_RecordInvariants ==
    [][/\ \A p \in DOMAIN activity' :
            /\ activity'[p].commandCount >= 1
            /\ activity'[p].lastCommand \in Commands
            /\ activity'[p].lastActive >= 1
            /\ activity'[p].firstSeen <= activity'[p].lastActive
       /\ \A p \in DOMAIN activity :
            /\ p \in DOMAIN activity'
            /\ activity'[p].firstSeen = activity[p].firstSeen
            /\ activity'[p].commandCount >= activity[p].commandCount
            /\ activity'[p].lastActive >= activity[p].lastActive]_vars

\* C30 witness: a record updated by a second event, later than the first;
\* its firstSeen is still the time of creation.
C30_Witness ==
    \E p \in DOMAIN activity :
        /\ activity[p].commandCount = 2
        /\ activity[p].firstSeen < activity[p].lastActive
        /\ lastOp.cmd = "event" /\ lastOp.who = p /\ lastOp.hadRecord
====
